---- MODULE Spec2Model ----
(***************************************************************************)
(* Model of the temporal resolution engine of human-date-parser            *)
(* (src/src/lib.rs) over the typed expression tree of src/src/ast.rs.      *)
(*                                                                         *)
(* A NaiveDate is the number of days since 1970-01-01 in the proleptic     *)
(* Gregorian calendar, restricted to chrono's representable range          *)
(* MIN_DATE..MAX_DATE; a NaiveTime is a second of the day 0..86399; a      *)
(* NaiveDateTime is a record [date, time].                                 *)
(***************************************************************************)
EXTENDS Integers, Sequences, FiniteSets, TLC

VARIABLES now, config, parsed, result, pc, text, overflow_checks

vars == <<now, config, parsed, result, pc, text, overflow_checks>>

(***************************************************************************)
(* Option / Result values.  A panic (unreachable!, an overflowing          *)
(* `NaiveDateTime + TimeDelta`) aborts the whole call and is carried as a  *)
(* third outcome.                                                          *)
(***************************************************************************)
Some(v) == [some |-> TRUE, val |-> v]

None == [some |-> FALSE]

Ok(v) == [st |-> "ok", val |-> v]

Err(e) == [st |-> "err", err |-> e]

Panic == [st |-> "panic"]

IsOk(r) == r.st = "ok"

IsErr(r) == r.st = "err"

IsPanic(r) == r.st = "panic"

\* Option::ok_or
ok_or(opt, e) == IF opt.some THEN Ok(opt.val) ELSE Err(e)

(***************************************************************************)
(* chrono calendar primitives                                              *)
(***************************************************************************)
MIN_YEAR == -262143

MAX_YEAR == 262142

SecondsPerDay == 86400

days_in_month(y, m) ==
    CASE m \in {1, 3, 5, 7, 8, 10, 12} -> 31
      [] m \in {4, 6, 9, 11} -> 30
      [] OTHER -> IF (y % 4 = 0) /\ ((y % 100 # 0) \/ (y % 400 = 0)) THEN 29 ELSE 28

\* day number of a valid civil date (days since 1970-01-01)
dfc_era(yy, mp, d) ==
    (yy \div 400) * 146097 + (yy % 400) * 365 + (yy % 400) \div 4 - (yy % 400) \div 100
    + ((153 * mp + 2) \div 5 + d - 1) - 719468

days_from_civil(y, m, d) ==
    dfc_era(IF m <= 2 THEN y - 1 ELSE y, IF m > 2 THEN m - 3 ELSE m + 9, d)

\* the civil date [year, month, day] of a day number
cfd_mp(y, doy, mp) ==
    [year |-> y + (IF mp >= 10 THEN 1 ELSE 0),
     month |-> IF mp < 10 THEN mp + 3 ELSE mp - 9,
     day |-> doy - (153 * mp + 2) \div 5 + 1]

cfd_yoe(era, doe, yoe) ==
    cfd_mp(yoe + era * 400,
           doe - (365 * yoe + yoe \div 4 - yoe \div 100),
           (5 * (doe - (365 * yoe + yoe \div 4 - yoe \div 100)) + 2) \div 153)

cfd_doe(era, doe) ==
    cfd_yoe(era, doe, (doe - doe \div 1460 + doe \div 36524 - doe \div 146096) \div 365)

civil_from_days(z) == cfd_doe((z + 719468) \div 146097, (z + 719468) % 146097)

MIN_DATE == days_from_civil(MIN_YEAR, 1, 1)

MAX_DATE == days_from_civil(MAX_YEAR, 12, 31)

\* Datelike::year / month / day
year_of(date) == civil_from_days(date).year

month_of(date) == civil_from_days(date).month

day_of(date) == civil_from_days(date).day

\* NaiveDate::from_ymd_opt
from_ymd_opt(y, m, d) ==
    IF /\ y >= MIN_YEAR /\ y <= MAX_YEAR
       /\ m >= 1 /\ m <= 12
       /\ d >= 1 /\ d <= days_in_month(y, m)
    THEN Some(days_from_civil(y, m, d))
    ELSE None

\* NaiveTime::from_hms_opt
from_hms_opt(h, m, s) ==
    IF h < 24 /\ m < 60 /\ s < 60 THEN Some(h * 3600 + m * 60 + s) ELSE None

\* NaiveDate::checked_add_days(Days::new(n)), n an unsigned day count
checked_add_days(date, n) ==
    IF n > MAX_DATE - date THEN None ELSE Some(date + n)

\* NaiveDate::checked_sub_days(Days::new(n))
checked_sub_days(date, n) ==
    IF n > date - MIN_DATE THEN None ELSE Some(date - n)

\* Datelike::weekday, Weekday::num_days_from_monday / num_days_from_sunday
WeekdayNames == <<"Mon", "Tue", "Wed", "Thu", "Fri", "Sat", "Sun">>

weekday(date) == WeekdayNames[((date + 3) % 7) + 1]

num_days_from_monday(wd) == (CHOOSE i \in 1..7 : WeekdayNames[i] = wd) - 1

num_days_from_sunday(wd) == (num_days_from_monday(wd) + 1) % 7

\* NaiveDateTime::new
NaiveDateTime(date, time) == [date |-> date, time |-> time]

\* a date-time operation that acts on the date and keeps the time of day
with_time(opt_date, time) ==
    IF opt_date.some THEN Some(NaiveDateTime(opt_date.val, time)) ELSE None

\* Datelike::with_year on a date-time
with_year_of(dt, c, y) == with_time(from_ymd_opt(y, c.month, c.day), dt.time)

with_year(dt, y) == with_year_of(dt, civil_from_days(dt.date), y)

\* NaiveDateTime::checked_add_months / checked_sub_months (Months::new(n)):
\* calendar month arithmetic, the day clamped to the target month's length
diff_months_total(dt, day, total) ==
    with_time(from_ymd_opt(total \div 12, (total % 12) + 1,
                           IF day > days_in_month(total \div 12, (total % 12) + 1)
                           THEN days_in_month(total \div 12, (total % 12) + 1)
                           ELSE day),
              dt.time)

diff_months_of(dt, c, delta) ==
    diff_months_total(dt, c.day, c.year * 12 + (c.month - 1) + delta)

diff_months(dt, delta) == diff_months_of(dt, civil_from_days(dt.date), delta)

checked_add_months(dt, n) == IF n = 0 THEN Some(dt) ELSE diff_months(dt, n)

checked_sub_months(dt, n) == IF n = 0 THEN Some(dt) ELSE diff_months(dt, -n)

\* NaiveDateTime::checked_add_days / checked_sub_days
dt_checked_add_days(dt, n) == with_time(checked_add_days(dt.date, n), dt.time)

dt_checked_sub_days(dt, n) == with_time(checked_sub_days(dt.date, n), dt.time)

\* `NaiveDateTime + TimeDelta` and `NaiveDateTime - TimeDelta` for a shift of
\* whole days plus secs seconds (0 <= secs < 86400): exact, and a panic when
\* the sum leaves the representable range.  The result is Ok or Panic.
add_timedelta(dt, days, secs) ==
    IF days + (dt.time + secs) \div SecondsPerDay > MAX_DATE - dt.date
    THEN Panic
    ELSE Ok(NaiveDateTime(dt.date + days + (dt.time + secs) \div SecondsPerDay,
                          (dt.time + secs) % SecondsPerDay))

sub_timedelta(dt, days, secs) ==
    IF days + (IF dt.time < secs THEN 1 ELSE 0) > dt.date - MIN_DATE
    THEN Panic
    ELSE Ok(NaiveDateTime(dt.date - days - (IF dt.time < secs THEN 1 ELSE 0),
                          (dt.time - secs) % SecondsPerDay))

(***************************************************************************)
(* ProcessingError / ParseError values (lib.rs 36-74)                      *)
(***************************************************************************)
TimeHourMinute(h, m) == [kind |-> "TimeHourMinute", hour |-> h, minute |-> m]

TimeHourMinuteSecond(h, m, s) ==
    [kind |-> "TimeHourMinuteSecond", hour |-> h, minute |-> m, second |-> s]

AddToNow(u, c) == [kind |-> "AddToNow", unit |-> u, count |-> c]

SubtractFromNow(u, c) == [kind |-> "SubtractFromNow", unit |-> u, count |-> c]

SubtractFromDate(u, c, dt) ==
    [kind |-> "SubtractFromDate", unit |-> u, count |-> c, date |-> dt]

AddToDate(u, c, dt) == [kind |-> "AddToDate", unit |-> u, count |-> c, date |-> dt]

InvalidDate(y, m, d) == [kind |-> "InvalidDate", year |-> y, month |-> m, day |-> d]

InnerHumanTimeParse(e) == [kind |-> "InnerHumanTimeParse", inner |-> e]

ProccessingErrors(errs) == [kind |-> "ProccessingErrors", errors |-> errs]

(***************************************************************************)
(* Duration Applier (lib.rs 340-449)                                       *)
(***************************************************************************)
Quantifier(u, c) == [unit |-> u, count |-> c]

\* Quantifier::Year: dt.with_year(dt.year() +/- years)
apply_year(c, year, dt) ==
    ok_or(with_year_of(dt, c, year), InvalidDate(year, c.month, c.day))

apply_years(years, dt, direction) ==
    IF direction = "Forwards"
    THEN apply_year(civil_from_days(dt.date), year_of(dt.date) + years, dt)
    ELSE apply_year(civil_from_days(dt.date), year_of(dt.date) - years, dt)

apply_months(months, dt, direction) ==
    IF direction = "Forwards"
    THEN ok_or(checked_add_months(dt, months), AddToDate("months", months, dt))
    ELSE ok_or(checked_sub_months(dt, months), SubtractFromDate("months", months, dt))

\* apply_weeks that reports the number of days, not of weeks
apply_weeks_count_days(weeks, dt, direction) ==
    IF direction = "Forwards"
    THEN ok_or(dt_checked_add_days(dt, weeks * 7), AddToDate("weeks", weeks * 7, dt))
    ELSE ok_or(dt_checked_sub_days(dt, weeks * 7), AddToDate("weeks", weeks * 7, dt))

\* apply_weeks whose backward branch drops the factor 7
apply_weeks_backward_days(weeks, dt, direction) ==
    IF direction = "Forwards"
    THEN ok_or(dt_checked_add_days(dt, weeks * 7), AddToDate("weeks", weeks, dt))
    ELSE ok_or(dt_checked_sub_days(dt, weeks), AddToDate("weeks", weeks, dt))

apply_weeks(weeks, dt, direction) ==
    IF direction = "Forwards"
    THEN ok_or(dt_checked_add_days(dt, weeks * 7), AddToDate("weeks", weeks, dt))
    ELSE ok_or(dt_checked_sub_days(dt, weeks * 7), AddToDate("weeks", weeks, dt))

apply_days(days, dt, direction) ==
    IF direction = "Forwards"
    THEN ok_or(dt_checked_add_days(dt, days), AddToDate("days", days, dt))
    ELSE ok_or(dt_checked_sub_days(dt, days), AddToDate("days", days, dt))

\* dt +/- ChronoDuration::hours / minutes / seconds, per seconds in the unit
apply_clock(count, per_day, unit_secs, dt, direction) ==
    IF direction = "Forwards"
    THEN add_timedelta(dt, count \div per_day, (count % per_day) * unit_secs)
    ELSE sub_timedelta(dt, count \div per_day, (count % per_day) * unit_secs)

\* one iteration of the loop of apply_duration: the match on the quantifier
apply_quantifier(quant, dt, direction) ==
    CASE quant.unit = "Year" -> apply_years(quant.count, dt, direction)
      [] quant.unit = "Month" -> apply_months(quant.count, dt, direction)
      [] quant.unit = "Week" -> apply_weeks(quant.count, dt, direction)
      [] quant.unit = "Day" -> apply_days(quant.count, dt, direction)
      [] quant.unit = "Hour" -> apply_clock(quant.count, 24, 3600, dt, direction)
      [] quant.unit = "Minute" -> apply_clock(quant.count, 1440, 60, dt, direction)
      [] quant.unit = "Second" -> apply_clock(quant.count, SecondsPerDay, 1, dt, direction)

RECURSIVE apply_duration(_, _, _)

\* the `?` of the loop body: an error ends the loop
apply_rest(rest, r, direction) ==
    IF IsOk(r) THEN apply_duration(rest, r.val, direction) ELSE r

\* apply_duration that walks the quantifiers from the last to the first
apply_duration_reversed(duration, dt, direction) ==
    IF duration = <<>>
    THEN Ok(dt)
    ELSE apply_rest(SubSeq(duration, 1, Len(duration) - 1),
                    apply_quantifier(duration[Len(duration)], dt, direction), direction)

\* for quant in duration.0 { dt = ...? }  Ok(dt)
apply_duration(duration, dt, direction) ==
    IF duration = <<>>
    THEN Ok(dt)
    ELSE apply_rest(Tail(duration), apply_quantifier(Head(duration), dt, direction), direction)

\* relative_date_time_unit (lib.rs 451-472): the quantifier is built first,
\* so a sub-day unit hits unreachable!() whatever the specifier is
relative_date_time_unit(relative, time_unit, dt) ==
    IF time_unit \in {"Hour", "Minute", "Second"}
    THEN Panic
    ELSE CASE relative = "This" -> Ok(dt)
           [] relative = "Next" -> apply_duration(<<Quantifier(time_unit, 1)>>, dt, "Forwards")
           [] relative = "Last" -> apply_duration(<<Quantifier(time_unit, 1)>>, dt, "Backwards")

(***************************************************************************)
(* Weekday Resolver (lib.rs 474-547)                                       *)
(***************************************************************************)
\* forward_offset with >= in place of >: today counts as the next target day
forward_offset_same_day(current_weekday, target_weekday) ==
    IF target_weekday >= current_weekday
    THEN target_weekday - current_weekday
    ELSE 7 - current_weekday + target_weekday

\* This | Next (no match today): offset forward
forward_offset(current_weekday, target_weekday) ==
    IF target_weekday > current_weekday
    THEN target_weekday - current_weekday
    ELSE 7 - current_weekday + target_weekday

\* backward_offset with > in place of >=: today counts as the last target day
backward_offset_same_day(current_weekday, target_weekday) ==
    IF target_weekday > current_weekday
    THEN 7 + current_weekday - target_weekday
    ELSE current_weekday - target_weekday

\* Last: offset backward
backward_offset(current_weekday, target_weekday) ==
    IF target_weekday >= current_weekday
    THEN 7 + current_weekday - target_weekday
    ELSE current_weekday - target_weekday

add_offset(date, offset) == ok_or(checked_add_days(date, offset), AddToNow("days", offset))

sub_offset(date, offset) ==
    ok_or(checked_sub_days(date, offset), SubtractFromNow("days", offset))

find_weekday_relative(relative, wd, date) ==
    IF relative \in {"This", "Next"}
    THEN IF relative = "This" /\ weekday(date) = wd
         THEN Ok(date)
         ELSE add_offset(date, forward_offset(num_days_from_monday(weekday(date)),
                                              num_days_from_monday(wd)))
    ELSE sub_offset(date, backward_offset(num_days_from_monday(weekday(date)),
                                          num_days_from_monday(wd)))

unsigned_abs(i) == IF i < 0 THEN -i ELSE i

week_offset(relative) ==
    (CASE relative = "This" -> 0
       [] relative = "Next" -> 1
       [] relative = "Last" -> -1) * 7

\* the shifted `now` of find_weekday_relative_week
week_anchor(date, offset) ==
    IF offset > 0
    THEN add_offset(date, unsigned_abs(offset))
    ELSE sub_offset(date, unsigned_abs(offset))

\* find_in_week that looks for the next target day, not this week's
find_in_week_next(anchor, wd) ==
    IF IsOk(anchor) THEN find_weekday_relative("Next", wd, anchor.val) ELSE anchor

find_in_week(anchor, wd) ==
    IF IsOk(anchor) THEN find_weekday_relative("This", wd, anchor.val) ELSE anchor

find_weekday_relative_week(relative, wd, date) ==
    find_in_week(week_anchor(date, -num_days_from_monday(weekday(date)) + week_offset(relative)),
                 wd)

(***************************************************************************)
(* Reference Resolver (lib.rs 589-669)                                     *)
(***************************************************************************)
target_year(year_spec, n) ==
    CASE year_spec.y = "None" -> n.year
      [] year_spec.y = "Relative" /\ year_spec.relative = "This" -> n.year
      [] year_spec.y = "Relative" /\ year_spec.relative = "Next" -> n.year + 1
      [] year_spec.y = "Relative" /\ year_spec.relative = "Last" -> n.year - 1
      [] year_spec.y = "Absolute" -> year_spec.year

\* target_month whose Relative(Last, m) keeps the target year when now's
\* month is m
target_month_last_strict(month_spec, n, ty) ==
    CASE month_spec.m = "Absolute" -> <<month_spec.month, ty>>
      [] month_spec.m = "Current" -> <<n.month, ty>>
      [] month_spec.m = "RelativeCurrent" ->
           (CASE month_spec.relative = "This" -> <<n.month, ty>>
              [] month_spec.relative = "Next" ->
                   IF n.month = 12 THEN <<1, ty + 1>> ELSE <<n.month + 1, ty>>
              [] month_spec.relative = "Last" ->
                   IF n.month = 1 THEN <<12, ty - 1>> ELSE <<n.month - 1, ty>>)
      [] month_spec.m = "Relative" ->
           (CASE month_spec.relative = "This" -> <<month_spec.month, ty>>
              [] month_spec.relative = "Next" -> <<month_spec.month, ty + 1>>
              [] month_spec.relative = "Last" ->
                   IF n.month < month_spec.month
                   THEN <<month_spec.month, ty - 1>>
                   ELSE <<month_spec.month, ty>>)

\* (target_month, final_year)
target_month(month_spec, n, ty) ==
    CASE month_spec.m = "Absolute" -> <<month_spec.month, ty>>
      [] month_spec.m = "Current" -> <<n.month, ty>>
      [] month_spec.m = "RelativeCurrent" ->
           (CASE month_spec.relative = "This" -> <<n.month, ty>>
              [] month_spec.relative = "Next" ->
                   IF n.month = 12 THEN <<1, ty + 1>> ELSE <<n.month + 1, ty>>
              [] month_spec.relative = "Last" ->
                   IF n.month = 1 THEN <<12, ty - 1>> ELSE <<n.month - 1, ty>>)
      [] month_spec.m = "Relative" ->
           (CASE month_spec.relative = "This" -> <<month_spec.month, ty>>
              [] month_spec.relative = "Next" -> <<month_spec.month, ty + 1>>
              [] month_spec.relative = "Last" ->
                   IF n.month <= month_spec.month
                   THEN <<month_spec.month, ty - 1>>
                   ELSE <<month_spec.month, ty>>)

first_of(my) ==
    IF from_ymd_opt(my[2], my[1], 1).some
    THEN Ok(NaiveDateTime(from_ymd_opt(my[2], my[1], 1).val, 0))
    ELSE Err(InvalidDate(my[2], my[1], 1))

resolve_month_year_of(month_spec, year_spec, n) ==
    first_of(target_month(month_spec, n, target_year(year_spec, n)))

resolve_month_year(month_spec, year_spec, dt) ==
    resolve_month_year_of(month_spec, year_spec, civil_from_days(dt.date))

\* .map_err(|_| SubtractFromNow { unit: "duration", count: 1 })
duration_error(r) == IF IsErr(r) THEN Err(SubtractFromNow("duration", 1)) ELSE r

resolve_datetime_reference(ref, dt) ==
    CASE ref.r = "MonthYear" -> resolve_month_year(ref.month_spec, ref.year_spec, dt)
      [] ref.r = "Ago" -> duration_error(apply_duration(ref.duration, dt, "Backwards"))
      [] ref.r = "RelativeTimeUnit" -> relative_date_time_unit(ref.relative, ref.unit, dt)
      [] ref.r = "TheTimeUnit" -> Ok(dt)
      [] ref.r = "Today" -> Ok(dt)
      [] ref.r = "Tomorrow" -> add_timedelta(dt, 1, 0)
      [] ref.r = "Yesterday" -> sub_timedelta(dt, 1, 0)
      [] ref.r = "Overmorrow" -> add_timedelta(dt, 2, 0)
      [] ref.r = "Now" -> Ok(dt)

(***************************************************************************)
(* Ordinal-of-Unit Resolver (lib.rs 549-587, 671-842)                      *)
(***************************************************************************)
\* day 1 of the month after (y, m): NaiveDate::from_ymd_opt(..., 1)
first_of_next_month(b) ==
    IF b.month = 12 THEN from_ymd_opt(b.year + 1, 1, 1) ELSE from_ymd_opt(b.year, b.month + 1, 1)

day_in_month(b, target_day) ==
    ok_or(from_ymd_opt(b.year, b.month, target_day), InvalidDate(b.year, b.month, target_day))

\* Ordinal::Last of apply_ordinal_to_days: the day before day 1 of next month
last_day_in_month(b, next_month) ==
    IF next_month.some
    THEN day_in_month(b, day_of(next_month.val - 1))
    ELSE Err(InvalidDate(b.year, b.month, 1))

apply_ordinal_to_days_of(ordinal, b) ==
    CASE ordinal.o = "First" -> day_in_month(b, 1)
      [] ordinal.o = "Last" -> last_day_in_month(b, first_of_next_month(b))
      [] ordinal.o = "Nth" -> day_in_month(b, ordinal.n)

apply_ordinal_to_days(ordinal, base_datetime) ==
    apply_ordinal_to_days_of(ordinal, civil_from_days(base_datetime.date))

\* days_from_week_start that ignores the configured week start
days_from_week_start_monday(base_date, cfg) == num_days_from_monday(weekday(base_date))

days_from_week_start(base_date, cfg) ==
    CASE cfg.week_start_day = "Sunday" -> num_days_from_sunday(weekday(base_date))
      [] cfg.week_start_day = "Monday" -> num_days_from_monday(weekday(base_date))

day_of_week(week_start, count) ==
    ok_or(checked_add_days(week_start, count),
          AddToDate("days", count, NaiveDateTime(week_start, 0)))

\* apply_ordinal_in_week whose Last is the first day of the following week
apply_ordinal_in_week_last_seven(ordinal, base_date, week_start) ==
    IF ~IsOk(week_start)
    THEN week_start
    ELSE CASE ordinal.o = "First" -> week_start
           [] ordinal.o = "Last" -> day_of_week(week_start.val, 7)
           [] ordinal.o = "Nth" ->
                IF ordinal.n < 1 \/ ordinal.n > 7
                THEN Err(InvalidDate(year_of(base_date), month_of(base_date), ordinal.n))
                ELSE day_of_week(week_start.val, ordinal.n - 1)

apply_ordinal_in_week(ordinal, base_date, week_start) ==
    IF ~IsOk(week_start)
    THEN week_start
    ELSE CASE ordinal.o = "First" -> week_start
           [] ordinal.o = "Last" -> day_of_week(week_start.val, 6)
           [] ordinal.o = "Nth" ->
                IF ordinal.n < 1 \/ ordinal.n > 7
                THEN Err(InvalidDate(year_of(base_date), month_of(base_date), ordinal.n))
                ELSE day_of_week(week_start.val, ordinal.n - 1)

apply_ordinal_to_weeks(ordinal, base_datetime, cfg) ==
    apply_ordinal_in_week(ordinal, base_datetime.date,
                          sub_offset(base_datetime.date,
                                     days_from_week_start(base_datetime.date, cfg)))

month_in_year(year, month) ==
    IF month < 1 \/ month > 12
    THEN Err(InvalidDate(year, month, 1))
    ELSE ok_or(from_ymd_opt(year, month, 1), InvalidDate(year, month, 1))

apply_ordinal_to_months(ordinal, base_datetime) ==
    CASE ordinal.o = "First" -> month_in_year(year_of(base_datetime.date), 1)
      [] ordinal.o = "Last" -> month_in_year(year_of(base_datetime.date), 12)
      [] ordinal.o = "Nth" -> month_in_year(year_of(base_datetime.date), ordinal.n)

\* jan_1.checked_add_days(Days::new((*n - 1) as u64)): for n = 0 the u32
\* subtraction panics in a build with overflow checks and wraps to 2^32 - 1
\* without them, a day count no date can take
nth_day_of_year(y, jan_1, n) ==
    CASE ~jan_1.some -> Err(InvalidDate(y, 1, 1))
      [] jan_1.some /\ n = 0 /\ overflow_checks -> Panic
      [] jan_1.some /\ n = 0 /\ ~overflow_checks ->
           Err(AddToDate("days", n, NaiveDateTime(jan_1.val, 0)))
      [] OTHER -> ok_or(checked_add_days(jan_1.val, n - 1),
                        AddToDate("days", n, NaiveDateTime(jan_1.val, 0)))

apply_ordinal_in_year(ordinal, y) ==
    CASE ordinal.o = "First" -> ok_or(from_ymd_opt(y, 1, 1), InvalidDate(y, 1, 1))
      [] ordinal.o = "Last" -> ok_or(from_ymd_opt(y, 12, 31), InvalidDate(y, 12, 31))
      [] ordinal.o = "Nth" -> nth_day_of_year(y, from_ymd_opt(y, 1, 1), ordinal.n)

apply_ordinal_to_years(ordinal, base_datetime) ==
    apply_ordinal_in_year(ordinal, year_of(base_datetime.date))

\* if target_date.month() == base_date.month()
same_month_or_error(b, target_date) ==
    IF month_of(target_date) = b.month
    THEN Ok(target_date)
    ELSE Err(InvalidDate(b.year, b.month, day_of(target_date)))

\* first_of_month + Days::new(((week_number - 1) * 7) as u64): a panic when
\* the sum leaves the representable range.  For week_number = 0 the u32
\* subtraction panics with overflow checks and gives 2^32 - 7 days without
\* them, where the sum panics
week_of_month(b, first_of_month, week_number) ==
    IF week_number = 0 \/ (week_number - 1) * 7 > MAX_DATE - first_of_month
    THEN Panic
    ELSE same_month_or_error(b, first_of_month + (week_number - 1) * 7)

\* Ordinal::Last: ((last_day.day() - 1) / 7) + 1, with the unwrap() of day 1
\* of the next month
last_week_of_month(b, first_of_month, next_month) ==
    IF next_month.some
    THEN week_of_month(b, first_of_month, ((day_of(next_month.val - 1) - 1) \div 7) + 1)
    ELSE Panic

apply_ordinal_in_month(ordinal, b, first_of_month) ==
    IF ~first_of_month.some
    THEN Err(InvalidDate(b.year, b.month, 1))
    ELSE CASE ordinal.o = "First" -> week_of_month(b, first_of_month.val, 1)
           [] ordinal.o = "Last" ->
                last_week_of_month(b, first_of_month.val, first_of_next_month(b))
           [] ordinal.o = "Nth" -> week_of_month(b, first_of_month.val, ordinal.n)

\* Nth(n) is modelled for (n - 1) * 7 < 2^32
apply_ordinal_to_weeks_of_month(ordinal, base_datetime) ==
    apply_ordinal_in_month(ordinal, civil_from_days(base_datetime.date),
                           from_ymd_opt(year_of(base_datetime.date),
                                        month_of(base_datetime.date), 1))

apply_ordinal_to_subday_units(ordinal, time_unit, base_datetime) ==
    Ok(base_datetime.date)

\* ordinal_strategy that sends unit Day of any week reference to day-of-week
ordinal_strategy_any_week(time_unit, ref) ==
    CASE time_unit = "Day" /\ ref.r \in {"RelativeTimeUnit", "TheTimeUnit"}
           /\ ref.unit = "Year" -> "day-of-year"
      [] time_unit = "Day" /\ ref.r \in {"RelativeTimeUnit", "TheTimeUnit"}
           /\ ref.unit = "Week" -> "day-of-week"
      [] time_unit = "Week" /\ ref.r = "RelativeTimeUnit" /\ ref.unit = "Month" -> "week-of-month"
      [] time_unit = "Week" /\ ref.r = "MonthYear" -> "week-of-month"
      [] OTHER ->
           (CASE time_unit = "Day" -> "day-of-month"
              [] time_unit = "Week" -> "day-of-week"
              [] time_unit = "Month" -> "month-of-year"
              [] time_unit = "Year" -> "day-of-year"
              [] time_unit \in {"Hour", "Minute", "Second"} -> "sub-day")

\* the strategy parse_ordinal_time_unit_of selects, first match wins
ordinal_strategy(time_unit, ref) ==
    CASE time_unit = "Day" /\ ref.r = "RelativeTimeUnit" /\ ref.unit = "Year" -> "day-of-year"
      [] time_unit = "Day" /\ ref.r = "TheTimeUnit" /\ ref.unit = "Year" -> "day-of-year"
      [] time_unit = "Day" /\ ref.r = "RelativeTimeUnit" /\ ref.relative = "Last"
           /\ ref.unit = "Week" -> "day-of-week"
      [] time_unit = "Week" /\ ref.r = "RelativeTimeUnit" /\ ref.unit = "Month" -> "week-of-month"
      [] time_unit = "Week" /\ ref.r = "MonthYear" -> "week-of-month"
      [] OTHER ->
           (CASE time_unit = "Day" -> "day-of-month"
              [] time_unit = "Week" -> "day-of-week"
              [] time_unit = "Month" -> "month-of-year"
              [] time_unit = "Year" -> "day-of-year"
              [] time_unit \in {"Hour", "Minute", "Second"} -> "sub-day")

\* apply_ordinal that sends the week-of-month strategy to the weekly one
apply_ordinal_weekly(s, ordinal, time_unit, base, cfg) ==
    IF ~IsOk(base)
    THEN base
    ELSE CASE s = "day-of-year" -> apply_ordinal_to_years(ordinal, base.val)
           [] s \in {"day-of-week", "week-of-month"} ->
                apply_ordinal_to_weeks(ordinal, base.val, cfg)
           [] s = "day-of-month" -> apply_ordinal_to_days(ordinal, base.val)
           [] s = "month-of-year" -> apply_ordinal_to_months(ordinal, base.val)
           [] s = "sub-day" -> apply_ordinal_to_subday_units(ordinal, time_unit, base.val)

apply_ordinal(s, ordinal, time_unit, base, cfg) ==
    IF ~IsOk(base)
    THEN base
    ELSE CASE s = "day-of-year" -> apply_ordinal_to_years(ordinal, base.val)
           [] s = "day-of-week" -> apply_ordinal_to_weeks(ordinal, base.val, cfg)
           [] s = "week-of-month" -> apply_ordinal_to_weeks_of_month(ordinal, base.val)
           [] s = "day-of-month" -> apply_ordinal_to_days(ordinal, base.val)
           [] s = "month-of-year" -> apply_ordinal_to_months(ordinal, base.val)
           [] s = "sub-day" -> apply_ordinal_to_subday_units(ordinal, time_unit, base.val)

parse_ordinal_time_unit_of(ordinal, time_unit, ref, dt, cfg) ==
    apply_ordinal(ordinal_strategy(time_unit, ref), ordinal, time_unit,
                  resolve_datetime_reference(ref, dt), cfg)

(***************************************************************************)
(* Top-level Dispatcher (lib.rs 194-332)                                   *)
(***************************************************************************)
\* parse_iso_date with the day clamped to the month's length
parse_iso_date_clamped(iso_date) ==
    ok_or(from_ymd_opt(iso_date.year, iso_date.month,
                       IF iso_date.month \in 1..12
                          /\ iso_date.day > days_in_month(iso_date.year, iso_date.month)
                       THEN days_in_month(iso_date.year, iso_date.month)
                       ELSE iso_date.day),
          InvalidDate(iso_date.year, iso_date.month, iso_date.day))

\* iso_date.year as i32 is the identity on the years the grammar's
\* four-digit form gives
parse_iso_date(iso_date) ==
    ok_or(from_ymd_opt(iso_date.year, iso_date.month, iso_date.day),
          InvalidDate(iso_date.year, iso_date.month, iso_date.day))

parse_day_month_year(day, month, year) ==
    ok_or(from_ymd_opt(year, month, day), InvalidDate(year, month, day))

\* .date() of an Ok date-time
date_part(r) == IF IsOk(r) THEN Ok(r.val.date) ELSE r

\* days_after that always steps one day
days_after_one(date, count) == ok_or(checked_add_days(date, 1), AddToNow("days", count))

\* now.date().checked_add_days(Days::new(count)).ok_or(AddToNow {days, count})
days_after(date, count) == ok_or(checked_add_days(date, count), AddToNow("days", count))

\* now.date().checked_sub_days(Days::new(count)).ok_or(SubtractFromNow {days, count})
days_before(date, count) ==
    ok_or(checked_sub_days(date, count), SubtractFromNow("days", count))

parse_date(date, dt, cfg) ==
    CASE date.d = "Today" -> Ok(dt.date)
      [] date.d = "Tomorrow" -> days_after(dt.date, 1)
      [] date.d = "Overmorrow" -> days_after(dt.date, 2)
      [] date.d = "Yesterday" -> days_before(dt.date, 1)
      [] date.d = "IsoDate" -> parse_iso_date(date)
      [] date.d = "DayMonthYear" -> parse_day_month_year(date.day, date.month, date.year)
      [] date.d = "DayMonth" -> parse_day_month_year(date.day, date.month, year_of(dt.date))
      [] date.d = "RelativeWeekWeekday" ->
           find_weekday_relative_week(date.relative, date.weekday, dt.date)
      [] date.d = "RelativeWeekday" ->
           find_weekday_relative(date.relative, date.weekday, dt.date)
      [] date.d = "RelativeTimeUnit" ->
           date_part(relative_date_time_unit(date.relative, date.unit, dt))
      [] date.d = "UpcomingWeekday" -> find_weekday_relative("Next", date.weekday, dt.date)
      [] date.d = "OrdinalTimeUnitOf" ->
           parse_ordinal_time_unit_of(date.ordinal, date.unit, date.reference, dt, cfg)

parse_time(time) ==
    CASE time.t = "HourMinute" ->
           ok_or(from_hms_opt(time.hour, time.minute, 0),
                 TimeHourMinute(time.hour, time.minute))
      [] time.t = "HourMinuteSecond" ->
           ok_or(from_hms_opt(time.hour, time.minute, time.second),
                 TimeHourMinuteSecond(time.hour, time.minute, time.second))

\* ParseResult values
ParseResultDateTime(dt) == [tag |-> "DateTime", date |-> dt.date, time |-> dt.time]

ParseResultDate(d) == [tag |-> "Date", date |-> d]

ParseResultTime(t) == [tag |-> "Time", time |-> t]

\* .map(|dt| ParseResult::DateTime(dt)) and its Date and Time forms
as_date_time(r) == IF IsOk(r) THEN Ok(ParseResultDateTime(r.val)) ELSE r

as_date(r) == IF IsOk(r) THEN Ok(ParseResultDate(r.val)) ELSE r

as_time(r) == IF IsOk(r) THEN Ok(ParseResultTime(r.val)) ELSE r

\* match (date, time) of parse_date_time
combine_date_time(date, time) ==
    CASE IsPanic(date) \/ IsPanic(time) -> Panic
      [] IsOk(date) /\ IsOk(time) -> Ok(NaiveDateTime(date.val, time.val))
      [] IsOk(date) /\ IsErr(time) -> Err(ProccessingErrors(<<time.err>>))
      [] IsErr(date) /\ IsOk(time) -> Err(ProccessingErrors(<<date.err>>))
      [] IsErr(date) /\ IsErr(time) -> Err(ProccessingErrors(<<date.err, time.err>>))

parse_date_time(date_time, dt, cfg) ==
    combine_date_time(parse_date(date_time.date, dt, cfg), parse_time(date_time.time))

parse_in(in_ast, dt) == apply_duration(in_ast.duration, dt, "Forwards")

\* .map_err(|err| ParseError::ProccessingErrors(vec![err]))
wrap_single(r) == IF IsErr(r) THEN Err(ProccessingErrors(<<r.err>>)) ELSE r

\* ago_base that pairs a nested date with midnight
ago_base_midnight(v, dt) ==
    CASE v.tag = "DateTime" -> NaiveDateTime(v.date, v.time)
      [] v.tag = "Date" -> NaiveDateTime(v.date, 0)
      [] v.tag = "Time" -> NaiveDateTime(dt.date, v.time)

\* the base date-time of Ago::AgoFromTime: the match on the nested result
ago_base(v, dt) ==
    CASE v.tag = "DateTime" -> NaiveDateTime(v.date, v.time)
      [] v.tag = "Date" -> NaiveDateTime(v.date, dt.time)
      [] v.tag = "Time" -> NaiveDateTime(dt.date, v.time)

ago_from_time(duration, human_time, dt) ==
    CASE IsPanic(human_time) -> Panic
      [] IsErr(human_time) -> Err(InnerHumanTimeParse(human_time.err))
      [] IsOk(human_time) -> apply_duration(duration, ago_base(human_time.val, dt), "Backwards")

RECURSIVE parse_human_time(_, _, _)

parse_ago(ago, dt, cfg) ==
    IF ago.a = "AgoFromNow"
    THEN apply_duration(ago.duration, dt, "Backwards")
    ELSE ago_from_time(ago.duration, parse_human_time(ago.time, dt, cfg), dt)

parse_human_time(ast, dt, cfg) ==
    CASE ast.root = "DateTime" -> as_date_time(parse_date_time(ast, dt, cfg))
      [] ast.root = "Date" -> wrap_single(as_date(parse_date(ast.date, dt, cfg)))
      [] ast.root = "Time" -> wrap_single(as_time(parse_time(ast.time)))
      [] ast.root = "In" -> wrap_single(as_date_time(parse_in(ast, dt)))
      [] ast.root = "Ago" -> wrap_single(as_date_time(parse_ago(ast.ago, dt, cfg)))
      [] ast.root = "Now" -> Ok(ParseResultDateTime(dt))

(***************************************************************************)
(* Expression tree (ast.rs 380-545)                                        *)
(***************************************************************************)
RelativeSpecifiers == {"This", "Next", "Last"}

TimeUnits == {"Year", "Month", "Week", "Day", "Hour", "Minute", "Second"}

Weekdays == {WeekdayNames[i] : i \in 1..7}

ParseConfig(ws) == [week_start_day |-> ws]

\* impl Default for ParseConfig
ParseConfigDefault == ParseConfig("Sunday")

First == [o |-> "First"]

Last == [o |-> "Last"]

Nth(n) == [o |-> "Nth", n |-> n]

MonthAbsolute(m) == [m |-> "Absolute", month |-> m]

MonthCurrent == [m |-> "Current"]

MonthRelativeCurrent(r) == [m |-> "RelativeCurrent", relative |-> r]

MonthRelative(r, m) == [m |-> "Relative", relative |-> r, month |-> m]

YearNone == [y |-> "None"]

YearRelative(r) == [y |-> "Relative", relative |-> r]

YearAbsolute(y) == [y |-> "Absolute", year |-> y]

RefMonthYear(ms, ys) == [r |-> "MonthYear", month_spec |-> ms, year_spec |-> ys]

RefAgo(d) == [r |-> "Ago", duration |-> d]

RefRelativeTimeUnit(rel, u) == [r |-> "RelativeTimeUnit", relative |-> rel, unit |-> u]

RefTheTimeUnit(u) == [r |-> "TheTimeUnit", unit |-> u]

RefKeyword(k) == [r |-> k]

DateKeyword(k) == [d |-> k]

IsoDate(y, m, d) == [d |-> "IsoDate", year |-> y, month |-> m, day |-> d]

DayMonthYear(d, m, y) == [d |-> "DayMonthYear", day |-> d, month |-> m, year |-> y]

DayMonth(d, m) == [d |-> "DayMonth", day |-> d, month |-> m]

RelativeWeekWeekday(r, wd) == [d |-> "RelativeWeekWeekday", relative |-> r, weekday |-> wd]

RelativeWeekday(r, wd) == [d |-> "RelativeWeekday", relative |-> r, weekday |-> wd]

RelativeTimeUnit(r, u) == [d |-> "RelativeTimeUnit", relative |-> r, unit |-> u]

UpcomingWeekday(wd) == [d |-> "UpcomingWeekday", weekday |-> wd]

OrdinalTimeUnitOf(o, u, ref) ==
    [d |-> "OrdinalTimeUnitOf", ordinal |-> o, unit |-> u, reference |-> ref]

HourMinute(h, m) == [t |-> "HourMinute", hour |-> h, minute |-> m]

HourMinuteSecond(h, m, s) == [t |-> "HourMinuteSecond", hour |-> h, minute |-> m, second |-> s]

HumanTimeDateTime(d, t) == [root |-> "DateTime", date |-> d, time |-> t]

HumanTimeDate(d) == [root |-> "Date", date |-> d]

HumanTimeTime(t) == [root |-> "Time", time |-> t]

HumanTimeIn(dur) == [root |-> "In", duration |-> dur]

AgoFromNow(dur) == [a |-> "AgoFromNow", duration |-> dur]

AgoFromTime(dur, ht) == [a |-> "AgoFromTime", duration |-> dur, time |-> ht]

HumanTimeAgo(ago) == [root |-> "Ago", ago |-> ago]

HumanTimeNow == [root |-> "Now"]


(***************************************************************************)
(* Inputs: the reference instants and the expression trees of a call       *)
(***************************************************************************)
\* longest duration (number of quantifiers) of an In / Ago expression
MaxLen == 2

\* number of consecutive reference dates from Monday 2024-01-15
WindowDays == 7

RefDay == days_from_civil(2024, 1, 15)

Noon == 12 * 3600

\* every weekday, month / year / leap-day rollovers, and the two ends of the
\* representable range
NowSet ==
    { NaiveDateTime(d, Noon) :
        d \in (RefDay .. (RefDay + WindowDays - 1))
              \cup { days_from_civil(2023, 2, 28), days_from_civil(2023, 12, 31),
                     days_from_civil(2024, 1, 31), days_from_civil(2024, 2, 28),
                     days_from_civil(2024, 2, 29), days_from_civil(2024, 12, 1) }
              \cup { MIN_DATE + k : k \in {0, 1, 6, 7, 10, 13} }
              \cup { MAX_DATE - k : k \in {0, 1, 2, 6, 7, 24} } }
    \cup { NaiveDateTime(d, t) : d \in {RefDay, days_from_civil(2023, 12, 31), MIN_DATE, MAX_DATE},
                                 t \in {0, SecondsPerDay - 1} }

Clocks ==
    { HourMinute(h, m) : h \in {0, 19, 23, 24}, m \in {0, 45, 59, 60} }
    \cup { HourMinuteSecond(h, m, sec) : h \in {23, 24}, m \in {59, 60}, sec \in {59, 60} }

\* the grammar's ISO form is YYYY-MM-DD: a year of four digits, a month and a
\* day of two
IsoDates ==
    { IsoDate(y, m, d) : y \in {0, 1900, 2000, 2023, 2024, 9999},
                         m \in {0, 1, 2, 4, 12, 13},
                         d \in {0, 1, 28, 29, 30, 31, 32} }

\* the non-empty quantifier lists of length at most MaxLen
Durations ==
    UNION { [1..k -> { Quantifier("Year", 1), Quantifier("Year", 300000),
                       Quantifier("Month", 1), Quantifier("Month", 13),
                       Quantifier("Week", 1), Quantifier("Week", 2),
                       Quantifier("Day", 0), Quantifier("Day", 3),
                       Quantifier("Day", 100000000),
                       Quantifier("Hour", 1), Quantifier("Hour", 25),
                       Quantifier("Minute", 90),
                       Quantifier("Second", 1), Quantifier("Second", 90061) }] :
            k \in 1..MaxLen }

ShortDurations ==
    { <<Quantifier("Day", 2)>>, <<Quantifier("Week", 1)>>, <<Quantifier("Year", 1)>>,
      <<Quantifier("Month", 1), Quantifier("Day", 1)>>, <<Quantifier("Hour", 25)>>,
      <<Quantifier("Day", 100000000)>> }

Ordinals == { First, Last } \cup { Nth(n) : n \in {2, 4, 5, 6, 7, 8, 13, 31, 54, 366, 367} }

\* every shape of month with no year, and two months with every shape of year
MonthYearRefs ==
    { RefMonthYear(ms, YearNone) :
        ms \in { MonthAbsolute(m) : m \in {1, 2, 12} }
               \cup { MonthCurrent }
               \cup { MonthRelativeCurrent(r) : r \in RelativeSpecifiers }
               \cup { MonthRelative(r, m) : r \in RelativeSpecifiers, m \in {1, 2} } }
    \cup { RefMonthYear(ms, ys) :
             ms \in {MonthAbsolute(2), MonthRelativeCurrent("Next")},
             ys \in { YearNone, YearAbsolute(2023), YearAbsolute(300000) }
                    \cup { YearRelative(r) : r \in RelativeSpecifiers } }

OtherRefs ==
    { RefAgo(d) : d \in ShortDurations }
    \cup { RefRelativeTimeUnit(r, u) : r \in RelativeSpecifiers, u \in TimeUnits }
    \cup { RefTheTimeUnit(u) : u \in TimeUnits }
    \cup { RefKeyword(k) : k \in {"Today", "Tomorrow", "Yesterday", "Overmorrow", "Now"} }

References == MonthYearRefs \cup OtherRefs

Dates ==
    { DateKeyword(k) : k \in {"Today", "Tomorrow", "Overmorrow", "Yesterday"} }
    \cup IsoDates
    \cup { DayMonthYear(d, m, y) : d \in {29, 31}, m \in {2, 4, 12}, y \in {2023, 2024} }
    \cup { DayMonth(d, m) : d \in {29, 31}, m \in {2, 12} }
    \cup { RelativeWeekWeekday(r, wd) : r \in RelativeSpecifiers, wd \in Weekdays }
    \cup { RelativeWeekday(r, wd) : r \in RelativeSpecifiers, wd \in Weekdays }
    \cup { RelativeTimeUnit(r, u) : r \in RelativeSpecifiers, u \in TimeUnits }
    \cup { UpcomingWeekday(wd) : wd \in Weekdays }
    \cup { OrdinalTimeUnitOf(o, u, ref) : o \in {First, Last, Nth(2)}, u \in TimeUnits,
                                          ref \in References }
    \cup { OrdinalTimeUnitOf(o, "Week", ref) : o \in Ordinals, ref \in References }
    \cup { OrdinalTimeUnitOf(o, "Day", ref) : o \in Ordinals, ref \in OtherRefs }

\* the date halves of the combined expressions: succeeding, failing and
\* aborting ones
DateTimes ==
    { HumanTimeDateTime(d, t) :
        d \in { DateKeyword("Today"), DateKeyword("Tomorrow"), DateKeyword("Yesterday"),
                IsoDate(2024, 2, 29), IsoDate(2023, 2, 30), DayMonth(29, 2),
                RelativeWeekday("Last", "Fri"), RelativeWeekWeekday("Next", "Sun"),
                RelativeTimeUnit("Next", "Month"), RelativeTimeUnit("Last", "Year"),
                RelativeTimeUnit("Next", "Hour"),
                OrdinalTimeUnitOf(First, "Day", RefRelativeTimeUnit("Last", "Week")),
                OrdinalTimeUnitOf(Nth(54), "Week", RefMonthYear(MonthAbsolute(1), YearNone)),
                OrdinalTimeUnitOf(Nth(8), "Day", RefRelativeTimeUnit("Last", "Week")) },
        t \in Clocks }

\* the nested expressions of "<duration> ago from <expression>"
NestedTimes ==
    { HumanTimeNow,
      HumanTimeDate(DateKeyword("Tomorrow")),
      HumanTimeDate(IsoDate(2023, 2, 30)),
      HumanTimeDate(RelativeTimeUnit("Last", "Year")),
      HumanTimeDate(RelativeTimeUnit("This", "Minute")),
      HumanTimeDate(OrdinalTimeUnitOf(First, "Day", RefRelativeTimeUnit("Last", "Week"))),
      HumanTimeDate(OrdinalTimeUnitOf(First, "Day", RefAgo(<<Quantifier("Year", 1)>>))),
      HumanTimeTime(HourMinute(19, 45)),
      HumanTimeTime(HourMinuteSecond(24, 0, 60)),
      HumanTimeDateTime(IsoDate(2024, 2, 29), HourMinute(23, 59)),
      HumanTimeDateTime(IsoDate(2023, 2, 30), HourMinute(24, 0)),
      HumanTimeIn(<<Quantifier("Month", 1)>>),
      HumanTimeIn(<<Quantifier("Day", 100000000)>>),
      HumanTimeAgo(AgoFromNow(<<Quantifier("Year", 1)>>)),
      HumanTimeAgo(AgoFromTime(<<Quantifier("Day", 1)>>, HumanTimeDate(IsoDate(2023, 2, 30)))) }

(***************************************************************************)
(* The state machine: one call of from_human_time_with_config.  `parsed`   *)
(* is the tree build_ast_from returned, `result` what parse_human_time     *)
(* returned for it.  `overflow_checks` says whether the build checks u32   *)
(* arithmetic (rustc -C overflow-checks, on in debug and off in release    *)
(* profiles); `text` is the ordinal text of the expression when the call   *)
(* starts from text (second state machine below), and empty here.          *)
(***************************************************************************)
Init ==
    /\ now \in NowSet
    /\ config \in { ParseConfig(ws) : ws \in {"Sunday", "Monday"} }
    /\ parsed = [root |-> "None"]
    /\ result = [st |-> "none"]
    /\ pc = "ready"
    /\ text = ""
    /\ overflow_checks \in BOOLEAN

Resolve(ast) ==
    /\ parsed' = ast
    /\ result' = parse_human_time(ast, now, config)
    /\ pc' = "done"
    /\ UNCHANGED <<now, config, text, overflow_checks>>

ResolveDateTime == pc = "ready" /\ \E e \in DateTimes : Resolve(e)

ResolveDate == pc = "ready" /\ \E d \in Dates : Resolve(HumanTimeDate(d))

ResolveTime == pc = "ready" /\ \E t \in Clocks : Resolve(HumanTimeTime(t))

ResolveIn == pc = "ready" /\ \E d \in Durations : Resolve(HumanTimeIn(d))

ResolveAgo ==
    /\ pc = "ready"
    /\ \E a \in { AgoFromNow(d) : d \in Durations }
               \cup { AgoFromTime(d, ht) : d \in ShortDurations, ht \in NestedTimes } :
           Resolve(HumanTimeAgo(a))

ResolveNow == pc = "ready" /\ Resolve(HumanTimeNow)

Next ==
    \/ ResolveDateTime
    \/ ResolveDate
    \/ ResolveTime
    \/ ResolveIn
    \/ ResolveAgo
    \/ ResolveNow

Spec == Init /\ [][Next]_vars

(***************************************************************************)
(* Ordinal Word Decoder and the builder's Ordinal (ast.rs 10-109, 347-355). *)
(* A text is a string.                                                     *)
(***************************************************************************)
\* longest numeric prefix of a digit-suffix ordinal text
MaxDigits == 2

\* str::to_ascii_lowercase
to_ascii_lowercase(s) ==
    LET RECURSIVE lower_of(_, _, _)
        lower_of(c, upper, lower) ==
            IF Head(upper) = c THEN Head(lower) ELSE lower_of(c, Tail(upper), Tail(lower))
        is_ascii_uppercase(c) ==
            c \in {"A", "B", "C", "D", "E", "F", "G", "H", "I", "J", "K", "L", "M",
                   "N", "O", "P", "Q", "R", "S", "T", "U", "V", "W", "X", "Y", "Z"}
        RECURSIVE lowered(_)
        lowered(rest) ==
            IF rest = "" THEN ""
            ELSE (IF is_ascii_uppercase(Head(rest))
                  THEN lower_of(Head(rest), "ABCDEFGHIJKLMNOPQRSTUVWXYZ",
                                "abcdefghijklmnopqrstuvwxyz")
                  ELSE Head(rest))
                 \o lowered(Tail(rest))
    IN  lowered(s)

\* parse_word_ordinal without its fallback to parse_compound_ordinal
parse_word_ordinal_simple(s) ==
    CASE s = "first" -> Some(1) [] s = "second" -> Some(2) [] s = "third" -> Some(3)
      [] s = "fourth" -> Some(4) [] s = "fifth" -> Some(5) [] s = "sixth" -> Some(6)
      [] s = "seventh" -> Some(7) [] s = "eighth" -> Some(8) [] s = "ninth" -> Some(9)
      [] s = "tenth" -> Some(10) [] s = "eleventh" -> Some(11)
      [] s = "twelfth" -> Some(12) [] s = "thirteenth" -> Some(13)
      [] s = "fourteenth" -> Some(14) [] s = "fifteenth" -> Some(15)
      [] s = "sixteenth" -> Some(16) [] s = "seventeenth" -> Some(17)
      [] s = "eighteenth" -> Some(18) [] s = "nineteenth" -> Some(19)
      [] s = "twentieth" -> Some(20)
      [] OTHER -> None

\* s[..s.len()-2].parse::<u32>().ok() when s ends with st, nd, rd or th: the
\* prefix is an optional "+" and then one or more decimal digits; the parse
\* fails when a step acc * 10 + digit exceeds u32::MAX = 4294967295 (the
\* comparison is made on u32::MAX / 10 and u32::MAX % 10)
parse_numeric_ordinal(s) ==
    LET digit(c) ==
            CASE c = "0" -> 0 [] c = "1" -> 1 [] c = "2" -> 2 [] c = "3" -> 3
              [] c = "4" -> 4 [] c = "5" -> 5 [] c = "6" -> 6 [] c = "7" -> 7
              [] c = "8" -> 8 [] c = "9" -> 9 [] OTHER -> -1
        overflows(acc, d) == acc > 429496729 \/ (acc = 429496729 /\ d > 5)
        RECURSIVE digits(_, _)
        digits(rest, acc) ==
            IF rest = "" THEN Some(acc)
            ELSE IF digit(Head(rest)) < 0 THEN None
            ELSE IF overflows(acc, digit(Head(rest))) THEN None
            ELSE digits(Tail(rest), acc * 10 + digit(Head(rest)))
        unsigned(prefix) == IF prefix = "" THEN None ELSE digits(prefix, 0)
        parse(prefix) ==
            IF prefix # "" /\ Head(prefix) = "+" THEN unsigned(Tail(prefix)) ELSE unsigned(prefix)
    IN  IF Len(s) >= 2 /\ SubSeq(s, Len(s) - 1, Len(s)) \in {"st", "nd", "rd", "th"}
        THEN parse(SubSeq(s, 1, Len(s) - 2))
        ELSE None

\* parse_word_ordinal with parse_compound_ordinal, parse_tens_base,
\* parse_units_ordinal and parse_tens_ordinal
parse_word_ordinal(s) ==
    LET parse_tens_base(word) ==
            CASE word = "twenty" -> Some(20) [] word = "thirty" -> Some(30)
              [] word = "forty" -> Some(40) [] word = "fifty" -> Some(50)
              [] word = "sixty" -> Some(60) [] word = "seventy" -> Some(70)
              [] word = "eighty" -> Some(80) [] word = "ninety" -> Some(90)
              [] OTHER -> None
        parse_units_ordinal(word) ==
            CASE word = "first" -> Some(1) [] word = "second" -> Some(2)
              [] word = "third" -> Some(3) [] word = "fourth" -> Some(4)
              [] word = "fifth" -> Some(5) [] word = "sixth" -> Some(6)
              [] word = "seventh" -> Some(7) [] word = "eighth" -> Some(8)
              [] word = "ninth" -> Some(9)
              [] OTHER -> None
        parse_tens_ordinal(word) ==
            CASE word = "twentieth" -> Some(20) [] word = "thirtieth" -> Some(30)
              [] word = "fortieth" -> Some(40) [] word = "fiftieth" -> Some(50)
              [] word = "sixtieth" -> Some(60) [] word = "seventieth" -> Some(70)
              [] word = "eightieth" -> Some(80) [] word = "ninetieth" -> Some(90)
              [] OTHER -> None
        RECURSIVE find(_, _)
        find(rest, pos) ==
            IF rest = "" THEN None
            ELSE IF Head(rest) = "-" THEN Some(pos)
            ELSE find(Tail(rest), pos + 1)
        compound(tens_value, units_value) ==
            IF tens_value.some /\ units_value.some
            THEN Some(tens_value.val + units_value.val)
            ELSE None
        parse_compound_ordinal(word, hyphen_pos) ==
            IF hyphen_pos.some
            THEN compound(parse_tens_base(SubSeq(word, 1, hyphen_pos.val - 1)),
                          parse_units_ordinal(SubSeq(word, hyphen_pos.val + 1, Len(word))))
            ELSE parse_tens_ordinal(word)
    IN  CASE s = "first" -> Some(1) [] s = "second" -> Some(2) [] s = "third" -> Some(3)
          [] s = "fourth" -> Some(4) [] s = "fifth" -> Some(5) [] s = "sixth" -> Some(6)
          [] s = "seventh" -> Some(7) [] s = "eighth" -> Some(8) [] s = "ninth" -> Some(9)
          [] s = "tenth" -> Some(10) [] s = "eleventh" -> Some(11)
          [] s = "twelfth" -> Some(12) [] s = "thirteenth" -> Some(13)
          [] s = "fourteenth" -> Some(14) [] s = "fifteenth" -> Some(15)
          [] s = "sixteenth" -> Some(16) [] s = "seventeenth" -> Some(17)
          [] s = "eighteenth" -> Some(18) [] s = "nineteenth" -> Some(19)
          [] s = "twentieth" -> Some(20)
          [] OTHER -> parse_compound_ordinal(s, find(s, 1))

ordinal_from_str(s) ==
    LET or_word(numeric, lowercase) ==
            IF numeric.some THEN numeric ELSE parse_word_ordinal(lowercase)
        decode(lowercase) == or_word(parse_numeric_ordinal(lowercase), lowercase)
    IN  decode(to_ascii_lowercase(s))

\* DateTimeParser::Ordinal: Err is input.error("Invalid ordinal")
Ordinal(input) ==
    LET built(n) ==
            IF n.some THEN Ok(IF n.val = 1 THEN First ELSE Nth(n.val)) ELSE Err("Invalid ordinal")
    IN  IF to_ascii_lowercase(input) = "last" THEN Ok(Last) ELSE built(ordinal_from_str(input))

\* ParseError::InternalError(InternalError::FailedToBuildAst)
FailedToBuildAst == [kind |-> "InternalError", error |-> "FailedToBuildAst"]

\* ordinal texts as written in an expression: every digit-suffix form of at
\* most MaxDigits digits out of 0, 1, 2 and 9 (the empty prefix included),
\* words, compounds, tens, "last", mixed case, signs, prefixes beyond
\* u32::MAX, and texts the decoder rejects
OrdinalTexts ==
    LET RECURSIVE prefixes(_)
        prefixes(k) ==
            IF k = 0
            THEN {""}
            ELSE {""} \cup { d \o p : d \in {"0", "1", "2", "9"}, p \in prefixes(k - 1) }
    IN  { p \o suffix : p \in prefixes(MaxDigits), suffix \in {"st", "nd", "rd", "th"} }
        \cup { "last", "Last", "first", "First", "+1st", "-1st", "+th", "7th", "8th",
               "second", "Third", "seventh", "twelfth", "twentieth", "twenty-first",
               "forty-fifth", "ninety-ninth", "thirtieth", "ninetieth", "twenty-tenth",
               "ten-first", "1", "xth", "lastly", "zeroth", "twenty-", "-first",
               "twenty-one", "twentieth-first", "4294967296th", "99999999999th" }

(***************************************************************************)
(* The second state machine: one call of from_human_time_with_config for   *)
(* "<ordinal> <unit> of <reference>", from the ordinal's text on.  `text`  *)
(* is the ordinal as written, `parsed` the tree build_ast_from returned.   *)
(***************************************************************************)
InitOrdinal ==
    /\ now \in { NaiveDateTime(d, Noon) :
                   d \in {RefDay, days_from_civil(2023, 12, 31), MAX_DATE - 24} }
    /\ config \in { ParseConfig(ws) : ws \in {"Sunday", "Monday"} }
    /\ parsed = [root |-> "None"]
    /\ result = [st |-> "none"]
    /\ pc = "ready"
    /\ text = ""
    /\ overflow_checks \in BOOLEAN

\* build_ast_from on the lowercased text, then parse_human_time
ParseOrdinalText ==
    /\ pc = "ready"
    /\ \E str \in OrdinalTexts :
        LET resolve(ordinal) ==
                \E time_unit \in {"Day", "Week", "Month", "Year", "Hour"},
                   ref \in { RefTheTimeUnit("Year"), RefTheTimeUnit("Month"),
                             RefRelativeTimeUnit("Last", "Week"),
                             RefMonthYear(MonthAbsolute(2), YearNone) } :
                    IF IsOk(ordinal)
                    THEN /\ parsed' = HumanTimeDate(OrdinalTimeUnitOf(ordinal.val, time_unit, ref))
                         /\ result' = parse_human_time(parsed', now, config)
                    ELSE /\ parsed' = parsed
                         /\ result' = Err(FailedToBuildAst)
        IN  /\ text' = str
            /\ resolve(Ordinal(to_ascii_lowercase(str)))
    /\ pc' = "done"
    /\ UNCHANGED <<now, config, overflow_checks>>

SpecOrdinal == InitOrdinal /\ [][ParseOrdinalText]_vars


(***************************************************************************)
(* Properties                                                              *)
(***************************************************************************)
Done == pc = "done"

IsDate(shape) == Done /\ parsed.root = "Date" /\ parsed.date.d = shape

OkDate(d) == Ok(ParseResultDate(d))

OneError(e) == Err(ProccessingErrors(<<e>>))

Representable(d) == d >= MIN_DATE /\ d <= MAX_DATE

\* a bare-weekday lookup with specifier Next: "next <weekday>" or "<weekday>"
IsNextWeekday ==
    \/ IsDate("RelativeWeekday") /\ parsed.date.relative = "Next"
    \/ IsDate("UpcomingWeekday")

IsLastWeekday == IsDate("RelativeWeekday") /\ parsed.date.relative = "Last"

\* the distance in days (1..7) from date d to the nearest day strictly after
\* it (dir = 1) or strictly before it (dir = -1) whose weekday is wd
DaysTo(d, wd, dir) == CHOOSE k \in 1..7 : weekday(d + dir * k) = wd

\* C1 (as stated): a Next bare-weekday lookup returns, for every reference
\* date and target weekday, a date d on the target weekday with
\* 1 <= d - now.date <= 7, and d = now.date + 7 when today is the target.
C1_NextWeekdayAlwaysDate ==
    IsNextWeekday =>
        /\ IsOk(result)
        /\ result.val.tag = "Date"
        /\ weekday(result.val.date) = parsed.date.weekday
        /\ result.val.date - now.date \in 1..7
        /\ (weekday(now.date) = parsed.date.weekday => result.val.date = now.date + 7)

\* C1 (amended): a Next bare-weekday lookup returns the first date d strictly
\* after now.date that falls on the target weekday (1 <= d - now.date <= 7,
\* d = now.date + 7 when today is the target, never today) whenever d is not
\* after the last representable date; otherwise it returns the single error
\* AddToNow {unit: "days", count: d - now.date}.
C1_NextWeekday ==
    IsNextWeekday =>
        LET k == DaysTo(now.date, parsed.date.weekday, 1)
        IN  /\ weekday(now.date) = parsed.date.weekday => k = 7
            /\ IF Representable(now.date + k)
               THEN result = OkDate(now.date + k)
               ELSE result = OneError(AddToNow("days", k))

\* "next Friday" asked on a Friday gives the Friday a week later
C1_Witness ==
    /\ IsDate("RelativeWeekday")
    /\ parsed.date = RelativeWeekday("Next", "Fri")
    /\ weekday(now.date) = "Fri"
    /\ result = OkDate(now.date + 7)

\* C2 (as stated): a Last bare-weekday lookup returns, for every reference
\* date and target weekday, a date d on the target weekday with
\* 1 <= now.date - d <= 7, and d = now.date - 7 when today is the target.
C2_LastWeekdayAlwaysDate ==
    IsLastWeekday =>
        /\ IsOk(result)
        /\ result.val.tag = "Date"
        /\ weekday(result.val.date) = parsed.date.weekday
        /\ now.date - result.val.date \in 1..7
        /\ (weekday(now.date) = parsed.date.weekday => result.val.date = now.date - 7)

\* C2 (amended): a Last bare-weekday lookup returns the last date d strictly
\* before now.date that falls on the target weekday (1 <= now.date - d <= 7,
\* d = now.date - 7 when today is the target) whenever d is not before the
\* first representable date; otherwise it returns the single error
\* SubtractFromNow {unit: "days", count: now.date - d}.
C2_LastWeekday ==
    IsLastWeekday =>
        LET k == DaysTo(now.date, parsed.date.weekday, -1)
        IN  /\ weekday(now.date) = parsed.date.weekday => k = 7
            /\ IF Representable(now.date - k)
               THEN result = OkDate(now.date - k)
               ELSE result = OneError(SubtractFromNow("days", k))

\* "last Friday" asked on a Friday gives the Friday a week earlier
C2_Witness ==
    /\ IsLastWeekday
    /\ parsed.date.weekday = "Fri"
    /\ weekday(now.date) = "Fri"
    /\ result = OkDate(now.date - 7)

\* the Gregorian calendar, stated independently of the date arithmetic above
MonthLengths == <<31, 28, 31, 30, 31, 30, 31, 31, 30, 31, 30, 31>>

LeapYear(y) == y % 4 = 0 /\ (y % 100 # 0 \/ y % 400 = 0)

MonthLength(y, m) == IF m = 2 /\ LeapYear(y) THEN 29 ELSE MonthLengths[m]

ValidCalendarDate(y, m, d) == m \in 1..12 /\ d >= 1 /\ d <= MonthLength(y, m)

\* C3: an ISO date (year, month, day) resolves to exactly that calendar date
\* when it is a valid calendar date, and otherwise to an error list holding
\* the single entry InvalidDate {year, month, day} with the values given; the
\* result is a function of (year, month, day) alone, whatever now and the
\* week start are.
C3_IsoDate ==
    IsDate("IsoDate") =>
        LET iso == parsed.date
        IN  IF ValidCalendarDate(iso.year, iso.month, iso.day)
            THEN /\ IsOk(result)
                 /\ result.val.tag = "Date"
                 /\ civil_from_days(result.val.date) =
                        [year |-> iso.year, month |-> iso.month, day |-> iso.day]
            ELSE result = OneError(InvalidDate(iso.year, iso.month, iso.day))

\* 2023-02-29 is rejected with its own three values, 2024-02-29 is accepted
C3_Witness ==
    /\ IsDate("IsoDate")
    /\ \/ /\ parsed.date = IsoDate(2023, 2, 29)
          /\ result = OneError(InvalidDate(2023, 2, 29))
       \/ /\ parsed.date = IsoDate(2024, 2, 29)
          /\ result = OkDate(days_from_civil(2024, 2, 29))

\* the failures of one half of a combined expression, as a list
Failures(r) == IF IsErr(r) THEN <<r.err>> ELSE <<>>

\* C4: for every combined date+time expression both halves are resolved and
\* the outcome is the combined date-time when both succeed and otherwise the
\* error list holding exactly the failures that occurred, the date failure
\* before the time failure; for roots Date, Time, In and Ago an error list
\* has exactly one entry; root Now returns now unchanged.
C4_ErrorAggregation ==
    Done =>
        CASE parsed.root = "DateTime" ->
               LET d == parse_date(parsed.date, now, config)
                   t == parse_time(parsed.time)
               IN  /\ IsOk(d) \/ IsErr(d)
                   /\ IsOk(t) \/ IsErr(t)
                   /\ IF IsOk(d) /\ IsOk(t)
                      THEN result = Ok(ParseResultDateTime(NaiveDateTime(d.val, t.val)))
                      ELSE result = Err(ProccessingErrors(Failures(d) \o Failures(t)))
          [] parsed.root \in {"Date", "Time", "In", "Ago"} ->
               IsErr(result) => Len(result.err.errors) = 1
          [] parsed.root = "Now" -> result = Ok(ParseResultDateTime(now))

\* an ordinal-of-unit expression routed to the week-of-month strategy: unit
\* Week of a reference that names a month
IsWeekOfMonth ==
    /\ IsDate("OrdinalTimeUnitOf")
    /\ parsed.date.unit = "Week"
    /\ \/ parsed.date.reference.r = "MonthYear"
       \/ /\ parsed.date.reference.r = "RelativeTimeUnit"
          /\ parsed.date.reference.unit = "Month"

\* the week number an ordinal First or Nth(n) asks for
WeekNumber(ordinal) == IF ordinal.o = "First" THEN 1 ELSE ordinal.n

\* C5: the n-th week of a month is either day 1 of the anchor's month plus
\* 7 * (n - 1) days, lying in that same month of the anchor's year, or a
\* processing error; never a date in another month or another year, however
\* large n is (the last week likewise stays in the anchor's month and year).
C5_WeekOfMonthInAnchorMonth ==
    IsWeekOfMonth =>
        LET anchor == resolve_datetime_reference(parsed.date.reference, now)
        IN  IsOk(anchor) =>
                \/ IsErr(result)
                \/ /\ IsOk(result)
                   /\ result.val.tag = "Date"
                   /\ year_of(result.val.date) = year_of(anchor.val.date)
                   /\ month_of(result.val.date) = month_of(anchor.val.date)
                   /\ parsed.date.ordinal.o # "Last" =>
                         result.val.date =
                             days_from_civil(year_of(anchor.val.date),
                                             month_of(anchor.val.date), 1)
                             + 7 * (WeekNumber(parsed.date.ordinal) - 1)

\* a duration holding only week, day, hour, minute and second quantifiers
NonCalendar(duration) ==
    \A i \in 1..Len(duration) :
        duration[i].unit \in {"Week", "Day", "Hour", "Minute", "Second"}

\* C6: for every date-time d (here now) and every duration of week, day,
\* hour, minute and second quantifiers only, whenever applying the duration
\* forwards to d succeeds, applying the same duration backwards to the result
\* returns d exactly.
C6_ForwardBackwardSymmetry ==
    (Done /\ parsed.root = "In" /\ NonCalendar(parsed.duration) /\ IsOk(result)) =>
        apply_duration(parsed.duration,
                       NaiveDateTime(result.val.date, result.val.time),
                       "Backwards") = Ok(now)

\* "in 1 week 25 hours" late in the evening of the last day of a year: the
\* forward step crosses midnight and the year's end
C6_Witness ==
    /\ Done
    /\ parsed = HumanTimeIn(<<Quantifier("Week", 1), Quantifier("Hour", 25)>>)
    /\ now = NaiveDateTime(days_from_civil(2023, 12, 31), SecondsPerDay - 1)
    /\ result = Ok(ParseResultDateTime(
                    NaiveDateTime(days_from_civil(2024, 1, 9), 3599)))

\* "1st day of last week"
FirstDayOfLastWeek ==
    HumanTimeDate(OrdinalTimeUnitOf(First, "Day", RefRelativeTimeUnit("Last", "Week")))

\* the week-start configuration other than the current one
OtherConfig ==
    ParseConfig(IF config.week_start_day = "Sunday" THEN "Monday" ELSE "Sunday")

WeekStartName(cfg) == IF cfg.week_start_day = "Sunday" THEN "Sun" ELSE "Mon"

\* the latest date on or before d whose weekday is wd
LatestOnOrBefore(d, wd) == d - (CHOOSE k \in 0..6 : weekday(d - k) = wd)

\* C7 (as stated): for every reference instant "1st day of last week" yields
\* the latest Sunday on or before now.date - 7 under a Sunday week start and
\* the latest Monday on or before now.date - 7 under a Monday week start, two
\* different dates; with now = 2024-01-15 (a Monday) and the default
\* configuration it yields 2024-01-07.
C7_WeekStartAlwaysDates ==
    (Done /\ parsed = FirstDayOfLastWeek) =>
        /\ result = OkDate(LatestOnOrBefore(now.date - 7, WeekStartName(config)))
        /\ parse_human_time(parsed, now, OtherConfig)
               = OkDate(LatestOnOrBefore(now.date - 7, WeekStartName(OtherConfig)))
        /\ parse_human_time(parsed, now, OtherConfig) # result
        /\ (now.date = RefDay /\ config = ParseConfigDefault) =>
               result = OkDate(days_from_civil(2024, 1, 7))

\* C7 (amended): "1st day of last week" yields, under either week start, the
\* latest date on or before now.date - 7 that falls on the configured first
\* day of the week (Sunday or Monday) whenever that date is not before the
\* first representable date, and a single processing error otherwise; the
\* dates for the two week starts always differ, and with now = 2024-01-15 and
\* the default configuration the result is 2024-01-07.
C7_WeekStart ==
    (Done /\ parsed = FirstDayOfLastWeek) =>
        LET mine == LatestOnOrBefore(now.date - 7, WeekStartName(config))
            theirs == LatestOnOrBefore(now.date - 7, WeekStartName(OtherConfig))
            other == parse_human_time(parsed, now, OtherConfig)
        IN  /\ IF mine >= MIN_DATE
               THEN result = OkDate(mine)
               ELSE IsErr(result) /\ Len(result.err.errors) = 1
            /\ IF theirs >= MIN_DATE
               THEN other = OkDate(theirs)
               ELSE IsErr(other) /\ Len(other.err.errors) = 1
            /\ mine # theirs
            /\ (now.date = RefDay /\ config = ParseConfigDefault) =>
                   result = OkDate(days_from_civil(2024, 1, 7))

\* the reference scenario: Monday 2024-01-15 gives Sunday 2024-01-07 under the
\* default week start, and Monday 2024-01-08 under a Monday week start
C7_Witness ==
    /\ Done
    /\ parsed = FirstDayOfLastWeek
    /\ now.date = RefDay
    /\ config = ParseConfigDefault
    /\ result = OkDate(days_from_civil(2024, 1, 7))
    /\ parse_human_time(parsed, now, OtherConfig) = OkDate(days_from_civil(2024, 1, 8))

\* an ordinal-of-unit date routed to the day-of-week strategy: unit Day of
\* "last week", or unit Week of a reference that does not name a month
DayOfWeekRouted(date) ==
    /\ date.d = "OrdinalTimeUnitOf"
    /\ \/ /\ date.unit = "Day"
          /\ date.reference = RefRelativeTimeUnit("Last", "Week")
       \/ /\ date.unit = "Week"
          /\ date.reference.r # "MonthYear"
          /\ ~(date.reference.r = "RelativeTimeUnit" /\ date.reference.unit = "Month")

RECURSIVE UsesDayOfWeek(_)

\* the expression is, or contains, a date routed to the day-of-week strategy
UsesDayOfWeek(ast) ==
    CASE ast.root \in {"DateTime", "Date"} -> DayOfWeekRouted(ast.date)
      [] ast.root = "Ago" -> ast.ago.a = "AgoFromTime" /\ UsesDayOfWeek(ast.ago.time)
      [] OTHER -> FALSE

\* C8: for every expression that is not an ordinal-of-unit expression routed
\* to the day-of-week strategy, the result under a Sunday week start and the
\* result under a Monday week start are identical (bare and week-anchored
\* weekday lookups, week-of-month, day-of-month, month-of-year and day-of-year
\* included).
C8_WeekStartOnlyDayOfWeek ==
    (Done /\ ~UsesDayOfWeek(parsed)) =>
        parse_human_time(parsed, now, OtherConfig) = result

\* "next week Sunday" under a Sunday week start: the week-anchored lookup
\* still counts its week from Monday, as it does under a Monday week start
C8_Witness ==
    /\ Done
    /\ parsed = HumanTimeDate(RelativeWeekWeekday("Next", "Sun"))
    /\ config = ParseConfig("Sunday")
    /\ now.date = RefDay
    /\ result = OkDate(days_from_civil(2024, 1, 28))
    /\ parse_human_time(parsed, now, ParseConfig("Monday")) = result

\* the failure of a reference's own resolution, before any rewrapping
ReferenceResolution(ref) ==
    IF ref.r = "Ago"
    THEN apply_duration(ref.duration, now, "Backwards")
    ELSE resolve_datetime_reference(ref, now)

\* error e is what the nested-resolution error w wraps
Wraps(w, e) ==
    /\ w.kind = "InnerHumanTimeParse"
    /\ \/ w.inner = e
       \/ w.inner.kind = "ProccessingErrors" /\ \E i \in 1..Len(w.inner.errors) :
                                                    w.inner.errors[i] = e

\* C9: when the nested expression of an Ago-with-nested-expression fails, or
\* the reference of an ordinal-of-unit expression fails to resolve, the
\* reported error is of the nested-resolution kind and wraps the inner error
\* unchanged; it is not flattened, replaced or dropped.
C9_NestedErrorsWrapped ==
    /\ (Done /\ parsed.root = "Ago" /\ parsed.ago.a = "AgoFromTime") =>
           LET inner == parse_human_time(parsed.ago.time, now, config)
           IN  IsErr(inner) => result = OneError(InnerHumanTimeParse(inner.err))
    /\ IsDate("OrdinalTimeUnitOf") =>
           LET inner == ReferenceResolution(parsed.date.reference)
           IN  IsErr(inner) =>
                   /\ IsErr(result)
                   /\ Len(result.err.errors) = 1
                   /\ Wraps(result.err.errors[1], inner.err)

\* the calendar day after (y, m, d), by the calendar's own rules
NextCalendarDay(c) ==
    IF c.day < MonthLength(c.year, c.month)
    THEN [c EXCEPT !.day = c.day + 1]
    ELSE IF c.month < 12
         THEN [c EXCEPT !.month = c.month + 1, !.day = 1]
         ELSE [year |-> c.year + 1, month |-> 1, day |-> 1]

IsKeyword == Done /\ parsed.root = "Date"
             /\ parsed.date.d \in {"Today", "Tomorrow", "Yesterday", "Overmorrow"}

\* C10 (as stated): for every reference instant Today, Tomorrow, Yesterday
\* and Overmorrow resolve to now.date, now.date + 1 day, now.date - 1 day and
\* now.date + 2 days, each a date-only result with correct month, year and
\* leap-day rollover, whatever the time of day and the week start.
C10_KeywordsAlwaysDates ==
    IsKeyword =>
        LET today == civil_from_days(now.date)
            kw == parsed.date.d
        IN  /\ IsOk(result)
            /\ result.val.tag = "Date"
            /\ kw = "Today" => civil_from_days(result.val.date) = today
            /\ kw = "Tomorrow" => civil_from_days(result.val.date) = NextCalendarDay(today)
            /\ kw = "Overmorrow" =>
                   civil_from_days(result.val.date) = NextCalendarDay(NextCalendarDay(today))
            /\ kw = "Yesterday" => NextCalendarDay(civil_from_days(result.val.date)) = today

\* the signed number of days a date keyword moves from now.date
KeywordShift(kw) ==
    CASE kw = "Today" -> 0
      [] kw = "Tomorrow" -> 1
      [] kw = "Overmorrow" -> 2
      [] kw = "Yesterday" -> -1

\* C10 (amended): Today, Tomorrow, Yesterday and Overmorrow resolve to
\* now.date, now.date + 1 day, now.date - 1 day and now.date + 2 days, each a
\* date-only result with correct month, year and leap-day rollover, whatever
\* the time of day and the week start, whenever that date is representable;
\* otherwise the result is the single error AddToNow {"days", 1 or 2}
\* (Tomorrow, Overmorrow) or SubtractFromNow {"days", 1} (Yesterday).
C10_Keywords ==
    IsKeyword =>
        LET today == civil_from_days(now.date)
            kw == parsed.date.d
        IN  IF Representable(now.date + KeywordShift(kw))
            THEN /\ result = OkDate(now.date + KeywordShift(kw))
                 /\ kw = "Today" => civil_from_days(result.val.date) = today
                 /\ kw = "Tomorrow" =>
                        civil_from_days(result.val.date) = NextCalendarDay(today)
                 /\ kw = "Overmorrow" =>
                        civil_from_days(result.val.date)
                            = NextCalendarDay(NextCalendarDay(today))
                 /\ kw = "Yesterday" =>
                        NextCalendarDay(civil_from_days(result.val.date)) = today
            ELSE IF kw = "Yesterday"
                 THEN result = OneError(SubtractFromNow("days", 1))
                 ELSE result = OneError(AddToNow("days", KeywordShift(kw)))

\* Overmorrow on 2024-02-28 is 2024-03-01: the
\* step crosses the leap day and the month's end
C10_Witness ==
    /\ IsKeyword
    /\ parsed.date.d = "Overmorrow"
    /\ now.date = days_from_civil(2024, 2, 28)
    /\ civil_from_days(result.val.date) = [year |-> 2024, month |-> 3, day |-> 1]

\* Monday = 0 .. Sunday = 6
WeekdayIndex(wd) == CHOOSE i \in 0..6 : WeekdayNames[i + 1] = wd

\* 0 for This, +1 for Next, -1 for Last
WeekShift(relative) ==
    CASE relative = "This" -> 0
      [] relative = "Next" -> 1
      [] relative = "Last" -> -1

\* the Monday that starts the week WeekShift(relative) weeks from now's week
AnchorMonday(relative) == LatestOnOrBefore(now.date, "Mon") + 7 * WeekShift(relative)

\* C11 (as stated): for every reference date, specifier and target weekday
\* the week-anchored lookup returns M + 7 * k + index(target), M the Monday on
\* or before now.date and k = 0, +1, -1 for This, Next, Last: a date on the
\* target weekday inside that Monday-to-Sunday week, strictly after now.date
\* for Next and strictly before it for Last.
C11_WeekAnchoredAlwaysDate ==
    IsDate("RelativeWeekWeekday") =>
        LET monday == AnchorMonday(parsed.date.relative)
        IN  /\ result = OkDate(monday + WeekdayIndex(parsed.date.weekday))
            /\ weekday(result.val.date) = parsed.date.weekday
            /\ result.val.date \in monday .. (monday + 6)
            /\ parsed.date.relative = "Next" => result.val.date > now.date
            /\ parsed.date.relative = "Last" => result.val.date < now.date

\* C11 (amended): the week-anchored lookup returns M + 7 * k + index(target)
\* as stated whenever both the anchor Monday M + 7 * k and the target date
\* are representable; when the anchor Monday lies before the first
\* representable date the result is the single error SubtractFromNow {"days",
\* now.date - (M + 7 * k)}, when it lies after the last one AddToNow {"days",
\* (M + 7 * k) - now.date}, and when only the target date lies after the last
\* one AddToNow {"days", index(target)}.
C11_WeekAnchored ==
    IsDate("RelativeWeekWeekday") =>
        LET monday == AnchorMonday(parsed.date.relative)
            target == monday + WeekdayIndex(parsed.date.weekday)
        IN  IF monday < MIN_DATE
            THEN result = OneError(SubtractFromNow("days", now.date - monday))
            ELSE IF monday > MAX_DATE
            THEN result = OneError(AddToNow("days", monday - now.date))
            ELSE IF target > MAX_DATE
            THEN result = OneError(AddToNow("days", WeekdayIndex(parsed.date.weekday)))
            ELSE /\ result = OkDate(target)
                 /\ weekday(target) = parsed.date.weekday
                 /\ parsed.date.relative = "Next" => target > now.date
                 /\ parsed.date.relative = "Last" => target < now.date

\* "this week Monday" asked on Sunday 2024-01-21 is Monday 2024-01-15, six
\* days back; "next week Monday" is the day after
C11_Witness ==
    /\ IsDate("RelativeWeekWeekday")
    /\ parsed.date.weekday = "Mon"
    /\ now.date = days_from_civil(2024, 1, 21)
    /\ \/ parsed.date.relative = "This" /\ result = OkDate(days_from_civil(2024, 1, 15))
       \/ parsed.date.relative = "Next" /\ result = OkDate(days_from_civil(2024, 1, 22))

\* a duration applied to now: "in <duration>" forwards, "<duration> ago"
\* backwards
IsDurationFromNow ==
    /\ Done
    /\ \/ parsed.root = "In"
       \/ parsed.root = "Ago" /\ parsed.ago.a = "AgoFromNow"

AppliedDuration == IF parsed.root = "In" THEN parsed.duration ELSE parsed.ago.duration

AppliedDirection == IF parsed.root = "In" THEN "Forwards" ELSE "Backwards"

RECURSIVE AfterFirst(_, _, _, _)

\* the outcome after quantifiers 1..k of the duration, one after the other:
\* quantifier k works on the date-time quantifiers 1..k-1 left, and nothing
\* is applied once one of them has not returned a date-time
AfterFirst(k, duration, dt, direction) ==
    IF k = 0
    THEN Ok(dt)
    ELSE LET before == AfterFirst(k - 1, duration, dt, direction)
         IN  IF IsOk(before)
             THEN apply_quantifier(duration[k], before.val, direction)
             ELSE before

\* the outcome as the caller sees it
Reported(r) ==
    CASE IsOk(r) -> Ok(ParseResultDateTime(r.val))
      [] IsErr(r) -> OneError(r.err)
      [] OTHER -> r

\* C12: a duration is applied quantifier by quantifier in sequence order,
\* each to the result of the previous ones; on success the result is that
\* left-to-right fold, and when quantifier k is the first to fail the
\* returned error is the one quantifier k produces on the date-time left by
\* quantifiers 1..k-1, whatever quantifiers k+1.. are.
C12_SequentialFold ==
    IsDurationFromNow =>
        /\ result = Reported(AfterFirst(Len(AppliedDuration), AppliedDuration, now,
                                        AppliedDirection))
        /\ \A k \in 1..Len(AppliedDuration) :
               IsErr(AfterFirst(k, AppliedDuration, now, AppliedDirection)) =>
                   result = Reported(AfterFirst(k, AppliedDuration, now, AppliedDirection))

\* "in 1 month 100000000 days" on 2024-01-31: the month step gives
\* 2024-02-29, and the day step fails on that date, which the error carries
C12_Witness ==
    /\ Done
    /\ parsed = HumanTimeIn(<<Quantifier("Month", 1), Quantifier("Day", 100000000)>>)
    /\ now = NaiveDateTime(days_from_civil(2024, 1, 31), Noon)
    /\ result = OneError(AddToDate("days", 100000000,
                                   NaiveDateTime(days_from_civil(2024, 2, 29), Noon)))

\* the quantifier of the applied duration that is the first to fail
FailsAt(k) ==
    /\ k \in 1..Len(AppliedDuration)
    /\ IsOk(AfterFirst(k - 1, AppliedDuration, now, AppliedDirection))
    /\ IsErr(AfterFirst(k, AppliedDuration, now, AppliedDirection))

\* the date-time the failing quantifier k was adjusting
Adjusted(k) == AfterFirst(k - 1, AppliedDuration, now, AppliedDirection).val

\* the unit name an error reports for a quantifier's unit
UnitName(unit) ==
    CASE unit = "Year" -> "years"
      [] unit = "Month" -> "months"
      [] unit = "Week" -> "weeks"
      [] unit = "Day" -> "days"

\* error e carries the unit name and count of quantifier q, and the date dt
\* wherever it carries a date at all
CarriesUnitAndCount(e, q, dt) ==
    /\ "unit" \in DOMAIN e
    /\ e.unit = UnitName(q.unit)
    /\ "count" \in DOMAIN e
    /\ e.count = q.count
    /\ "date" \in DOMAIN e => e.date = dt

AimedYear(dt, c, direction) ==
    IF direction = "Forwards" THEN year_of(dt.date) + c ELSE year_of(dt.date) - c

KindsOf(direction) ==
    IF direction = "Forwards"
    THEN {"AddToDate", "AddToNow"}
    ELSE {"SubtractFromDate", "SubtractFromNow"}

\* C14: whenever a month, week or day quantifier fails, the kind of the
\* returned error matches the direction: a subtract kind when the duration is
\* applied backward, an add kind when it is applied forward.
C14_ErrorKindMatchesDirection ==
    IsDurationFromNow =>
        \A k \in 1..Len(AppliedDuration) :
            (FailsAt(k) /\ AppliedDuration[k].unit \in {"Month", "Week", "Day"}) =>
                /\ IsErr(result)
                /\ Len(result.err.errors) = 1
                /\ result.err.errors[1].kind \in KindsOf(AppliedDirection)

\* "1 week ago" at the first representable date fails on the week quantifier
C14_Witness ==
    /\ Done
    /\ parsed = HumanTimeAgo(AgoFromNow(<<Quantifier("Week", 1)>>))
    /\ now.date = MIN_DATE
    /\ FailsAt(1)
    /\ IsErr(result)

\* an Ago expression with a nested expression
IsAgoFromTime == Done /\ parsed.root = "Ago" /\ parsed.ago.a = "AgoFromTime"

\* what the nested expression resolves to with the call's now and config
NestedResult == parse_human_time(parsed.ago.time, now, config)

\* the nested result as a date-time: a missing date or time is now's
BaseDateTime ==
    [date |-> IF NestedResult.val.tag = "Time" THEN now.date ELSE NestedResult.val.date,
     time |-> IF NestedResult.val.tag = "Date" THEN now.time ELSE NestedResult.val.time]

\* the duration applied backward from the base
BackwardFromBase ==
    AfterFirst(Len(parsed.ago.duration), parsed.ago.duration, BaseDateTime, "Backwards")

\* C15 (as stated): for an Ago expression whose nested expression resolves
\* (with the same now and config), the nested result is reduced to a base
\* date-time (a date-time as is, a date with now's time of day, a time with
\* now's date) and the final result is always a combined date-time, equal to
\* the duration applied backward from that base.
C15_AgoFromTimeAlwaysDateTime ==
    (IsAgoFromTime /\ IsOk(NestedResult)) =>
        /\ IsOk(result)
        /\ result.val.tag = "DateTime"
        /\ result = Reported(BackwardFromBase)

\* C15 (amended): for an Ago expression whose nested expression resolves
\* (with the same now and config), the nested result is reduced to a base
\* date-time (a date-time as is, a date with now's time of day, a time with
\* now's date) and the final result is what applying the duration backward
\* from that base gives: a combined date-time, never a date or a time alone,
\* when the application succeeds, the failing quantifier's processing error
\* when it fails, and an abort when an hour, minute or second quantifier
\* leaves the representable range.
C15_AgoFromTime ==
    (IsAgoFromTime /\ IsOk(NestedResult)) =>
        /\ result = Reported(BackwardFromBase)
        /\ IsOk(result) => result.val.tag = "DateTime"

\* "2 days ago from tomorrow" at noon is noon of yesterday
C15_Witness ==
    /\ IsAgoFromTime
    /\ parsed.ago.time = HumanTimeDate(DateKeyword("Tomorrow"))
    /\ parsed.ago.duration = <<Quantifier("Day", 2)>>
    /\ now = NaiveDateTime(RefDay, Noon)
    /\ NestedResult = OkDate(RefDay + 1)
    /\ result = Ok(ParseResultDateTime(NaiveDateTime(RefDay - 1, Noon)))

\* an ordinal-of-unit date whose reference resolves
IsOrdinalOfUnit ==
    /\ IsDate("OrdinalTimeUnitOf")
    /\ IsOk(resolve_datetime_reference(parsed.date.reference, now))

\* the anchor the reference resolves to
Anchor == resolve_datetime_reference(parsed.date.reference, now).val

\* what the call returns when a strategy gives r
Via(r) == wrap_single(as_date(r))

\* shapes of the reference
YearReference(ref) == ref.r \in {"RelativeTimeUnit", "TheTimeUnit"} /\ ref.unit = "Year"

LastWeekReference(ref) == ref = RefRelativeTimeUnit("Last", "Week")

MonthReference(ref) ==
    \/ ref.r = "RelativeTimeUnit" /\ ref.unit = "Month"
    \/ ref.r = "MonthYear"

OtherWeekReference(ref) ==
    \/ ref.r = "RelativeTimeUnit" /\ ref.unit = "Week" /\ ref.relative \in {"This", "Next"}
    \/ ref.r = "TheTimeUnit" /\ ref.unit = "Week"

\* C16: the strategy of an ordinal-of-unit expression follows the stated
\* precedence for every (unit, reference shape) pair: Day of a year reference
\* uses day-of-year; Day of RelativeTimeUnit(Last, Week) uses day-of-week;
\* Week of a month reference uses week-of-month; every other pair dispatches
\* on the unit alone (Day to day-of-month, Week to day-of-week, Month to
\* month-of-year, Year to day-of-year, Hour/Minute/Second to sub-day), so Day
\* of "this week", "next week" or "the week" uses day-of-month.
C16_StrategySelection ==
    IsOrdinalOfUnit =>
        LET ordinal == parsed.date.ordinal
            unit == parsed.date.unit
            ref == parsed.date.reference
        IN  /\ (unit = "Day" /\ YearReference(ref)) =>
                   result = Via(apply_ordinal_to_years(ordinal, Anchor))
            /\ (unit = "Day" /\ LastWeekReference(ref)) =>
                   result = Via(apply_ordinal_to_weeks(ordinal, Anchor, config))
            /\ (unit = "Week" /\ MonthReference(ref)) =>
                   result = Via(apply_ordinal_to_weeks_of_month(ordinal, Anchor))
            /\ (unit = "Day" /\ OtherWeekReference(ref)) =>
                   result = Via(apply_ordinal_to_days(ordinal, Anchor))
            /\ (unit = "Day" /\ ~YearReference(ref) /\ ~LastWeekReference(ref)) =>
                   result = Via(apply_ordinal_to_days(ordinal, Anchor))
            /\ (unit = "Week" /\ ~MonthReference(ref)) =>
                   result = Via(apply_ordinal_to_weeks(ordinal, Anchor, config))
            /\ unit = "Month" => result = Via(apply_ordinal_to_months(ordinal, Anchor))
            /\ unit = "Year" => result = Via(apply_ordinal_to_years(ordinal, Anchor))
            /\ unit \in {"Hour", "Minute", "Second"} =>
                   result = Via(apply_ordinal_to_subday_units(ordinal, unit, Anchor))

\* "2nd day of next week" on Monday 2024-01-15 is 2024-01-02, the second day
\* of the anchor's month, where the day-of-week strategy gives another date
C16_Witness ==
    /\ IsOrdinalOfUnit
    /\ parsed.date = OrdinalTimeUnitOf(Nth(2), "Day", RefRelativeTimeUnit("Next", "Week"))
    /\ now.date = RefDay
    /\ result = OkDate(days_from_civil(2024, 1, 2))
    /\ result # Via(apply_ordinal_to_weeks(Nth(2), Anchor, config))

\* an ordinal-of-unit date resolved by the day-of-year strategy
IsDayOfYear ==
    /\ IsOrdinalOfUnit
    /\ \/ parsed.date.unit = "Year"
       \/ parsed.date.unit = "Day" /\ YearReference(parsed.date.reference)

\* the number of days of year y
YearLength(y) == IF LeapYear(y) THEN 366 ELSE 365

\* C17: in the day-of-year strategy, Nth(n) returns Jan 1 of the anchor's
\* year plus n-1 days when that date is inside the anchor's year and fails
\* for every n beyond the year's length (366 in a non-leap year included); a
\* successful result always lies in the anchor's year, First being its Jan 1
\* and Last its Dec 31.
C17_DayOfYearInAnchorYear ==
    IsDayOfYear =>
        LET ordinal == parsed.date.ordinal
            y == year_of(Anchor.date)
        IN  /\ IsOk(result) => year_of(result.val.date) = y
            /\ (IsOk(result) /\ ordinal.o = "First") =>
                   result = OkDate(days_from_civil(y, 1, 1))
            /\ (IsOk(result) /\ ordinal.o = "Last") =>
                   result = OkDate(days_from_civil(y, 12, 31))
            /\ (ordinal.o = "Nth" /\ ordinal.n <= YearLength(y)) =>
                   result = OkDate(days_from_civil(y, 1, 1) + (ordinal.n - 1))
            /\ (ordinal.o = "Nth" /\ ordinal.n > YearLength(y)) => IsErr(result)

\* "366th day of last year" on 2024-01-15: the anchor's year 2023 has 365
\* days, and the call returns 2024-01-01
C17_Witness ==
    /\ IsDayOfYear
    /\ parsed.date = OrdinalTimeUnitOf(Nth(366), "Day", RefRelativeTimeUnit("Last", "Year"))
    /\ now.date = RefDay
    /\ result = OkDate(days_from_civil(2024, 1, 1))

\* one unit applied to now, forward for Next and backward for Last
OneUnit(relative, unit) ==
    AfterFirst(1, <<Quantifier(unit, 1)>>, now,
               IF relative = "Next" THEN "Forwards" ELSE "Backwards")

\* what a RelativeTimeUnit(relative, unit) should resolve to: now for This,
\* a date-time or a processing error in every case
RelativeUnitResolves(relative, unit, r) ==
    /\ IsOk(r) \/ IsErr(r)
    /\ relative = "This" => r = Ok(now)
    /\ relative \in {"Next", "Last"} => r = OneUnit(relative, unit)

\* C18: a RelativeTimeUnit(specifier, unit) reference or date resolves to a
\* date-time or a processing error for every specifier and every one of the
\* seven units, never aborting; with This it is now unchanged, with Next or
\* Last exactly one unit applied forward or backward.  (A date keeps the date
\* part of that date-time.)
C18_RelativeTimeUnitNeverAborts ==
    /\ IsDate("RelativeTimeUnit") =>
           /\ IsOk(result) \/ IsErr(result)
           /\ parsed.date.relative = "This" => result = OkDate(now.date)
           /\ parsed.date.relative \in {"Next", "Last"} =>
                  result = Via(date_part(OneUnit(parsed.date.relative, parsed.date.unit)))
    /\ (IsDate("OrdinalTimeUnitOf") /\ parsed.date.reference.r = "RelativeTimeUnit") =>
           RelativeUnitResolves(parsed.date.reference.relative, parsed.date.reference.unit,
                                resolve_datetime_reference(parsed.date.reference, now))

\* "this hour": the call aborts
C18_Witness ==
    /\ IsDate("RelativeTimeUnit")
    /\ parsed.date = RelativeTimeUnit("This", "Hour")
    /\ now = NaiveDateTime(RefDay, Noon)
    /\ IsPanic(result)

\* the builder accepted the ordinal text and the tree holds its Ordinal
OrdinalAccepted == Done /\ text # "" /\ parsed.root = "Date"

\* C19: for every ordinal text the builder accepts, the produced Ordinal is
\* First, Last or Nth(n) with n >= 1: "last" gives Last, a text decoding to 1
\* gives First, and no accepted text yields Nth(0), so that the n - 1 of the
\* ordinal strategies never underflows and no outcome depends on the build's
\* overflow checks.
C19_OrdinalAtLeastOne ==
    OrdinalAccepted =>
        LET ordinal == parsed.date.ordinal
        IN  /\ \/ ordinal \in {First, Last}
               \/ ordinal.o = "Nth" /\ ordinal.n >= 1
            /\ to_ascii_lowercase(text) = "last" => ordinal = Last
            /\ ordinal_from_str(text) = Some(1) => ordinal = First
            /\ ordinal # Nth(0)
            /\ ordinal.o = "Nth" => ordinal.n - 1 >= 0

\* "0th day of the year": the builder gives Nth(0), and the day-of-year
\* strategy aborts on n - 1 in a build with overflow checks
C19_Witness ==
    /\ OrdinalAccepted
    /\ text = "0th"
    /\ parsed.date = OrdinalTimeUnitOf(Nth(0), "Day", RefTheTimeUnit("Year"))
    /\ overflow_checks
    /\ IsPanic(result)

\* an ordinal-of-unit date resolved by the day-of-week strategy
IsDayOfWeek == IsOrdinalOfUnit /\ DayOfWeekRouted(parsed.date)

\* the latest date on or before the anchor's date that falls on the
\* configured first day of the week
WeekStartOfAnchor == LatestOnOrBefore(Anchor.date, WeekStartName(config))

\* C20 (as stated): in the day-of-week strategy, with ws the latest date on
\* or before the anchor's date whose weekday is the configured week start,
\* First returns ws, Last returns ws + 6 days, Nth(n) returns ws + (n-1) days
\* for 1 <= n <= 7 and fails for every other n, so every successful result
\* lies in the 7-day span [ws, ws+6] that contains the anchor's date.
C20_DayOfWeekAlwaysDates ==
    IsDayOfWeek =>
        LET ordinal == parsed.date.ordinal
            ws == WeekStartOfAnchor
        IN  /\ ordinal.o = "First" => result = OkDate(ws)
            /\ ordinal.o = "Last" => result = OkDate(ws + 6)
            /\ (ordinal.o = "Nth" /\ ordinal.n \in 1..7) =>
                   result = OkDate(ws + (ordinal.n - 1))
            /\ (ordinal.o = "Nth" /\ ordinal.n \notin 1..7) => IsErr(result)
            /\ IsOk(result) =>
                   /\ result.val.date \in ws..(ws + 6)
                   /\ Anchor.date \in ws..(ws + 6)

\* C20 (amended): in the day-of-week strategy, with ws the latest date on or
\* before the anchor's date whose weekday is the configured week start: when
\* ws lies before the first representable date every ordinal fails with
\* SubtractFromNow {days, anchor - ws}; otherwise First returns ws, Last
\* returns ws + 6 days, Nth(n) returns ws + (n-1) days for 1 <= n <= 7, each
\* failing with AddToDate {days, 6 or n-1, ws} when that date lies after the
\* last representable date, and Nth(n) for n outside 1..7 fails with
\* InvalidDate {anchor's year, anchor's month, n}; every successful result
\* lies in the 7-day span [ws, ws+6] that contains the anchor's date.
C20_DayOfWeek ==
    IsDayOfWeek =>
        LET ordinal == parsed.date.ordinal
            ws == WeekStartOfAnchor
            offset == CASE ordinal.o = "First" -> 0
                        [] ordinal.o = "Last" -> 6
                        [] ordinal.o = "Nth" -> ordinal.n - 1
        IN  /\ ws < MIN_DATE =>
                   result = OneError(SubtractFromNow("days", Anchor.date - ws))
            /\ (ws >= MIN_DATE /\ ordinal.o = "Nth" /\ ordinal.n \notin 1..7) =>
                   result = OneError(InvalidDate(year_of(Anchor.date), month_of(Anchor.date),
                                                 ordinal.n))
            /\ (ws >= MIN_DATE /\ offset \in 0..6 /\ ws + offset <= MAX_DATE) =>
                   result = OkDate(ws + offset)
            /\ (ws >= MIN_DATE /\ offset \in 1..6 /\ ws + offset > MAX_DATE) =>
                   result = OneError(AddToDate("days", offset, NaiveDateTime(ws, 0)))
            /\ IsOk(result) =>
                   /\ result.val.date \in ws..(ws + 6)
                   /\ Anchor.date \in ws..(ws + 6)

\* "4th day of last week" on Monday 2024-01-15 under a Sunday week start: the
\* anchor is Monday 2024-01-08, its week starts on Sunday 2024-01-07 and the
\* result is Wednesday 2024-01-10
C20_Witness ==
    /\ IsDayOfWeek
    /\ parsed.date = OrdinalTimeUnitOf(Nth(4), "Day", RefRelativeTimeUnit("Last", "Week"))
    /\ now.date = RefDay
    /\ config = ParseConfig("Sunday")
    /\ WeekStartOfAnchor = days_from_civil(2024, 1, 7)
    /\ result = OkDate(days_from_civil(2024, 1, 10))

\* an ordinal-of-unit date resolved by the day-of-month strategy: unit Day of
\* a reference that is neither a year reference nor "last week"
IsDayOfMonth ==
    /\ IsOrdinalOfUnit
    /\ parsed.date.unit = "Day"
    /\ ~YearReference(parsed.date.reference)
    /\ ~LastWeekReference(parsed.date.reference)

\* C21: in the day-of-month strategy, for every anchor date, First returns
\* day 1 of the anchor's month, Last returns the last calendar day of that
\* month (28, 29, 30 or 31, December included) and never fails, Nth(n)
\* returns day n of the anchor's month when n does not exceed the month's
\* length and fails with InvalidDate(year, month, n) otherwise; a result is
\* always in the anchor's month and year.
C21_DayOfMonth ==
    IsDayOfMonth =>
        LET ordinal == parsed.date.ordinal
            y == year_of(Anchor.date)
            m == month_of(Anchor.date)
        IN  /\ ordinal.o = "First" => result = OkDate(days_from_civil(y, m, 1))
            /\ ordinal.o = "Last" =>
                   result = OkDate(days_from_civil(y, m, MonthLength(y, m)))
            /\ (ordinal.o = "Nth" /\ ordinal.n <= MonthLength(y, m)) =>
                   result = OkDate(days_from_civil(y, m, ordinal.n))
            /\ (ordinal.o = "Nth" /\ ordinal.n > MonthLength(y, m)) =>
                   result = OneError(InvalidDate(y, m, ordinal.n))
            /\ IsOk(result) =>
                   /\ year_of(result.val.date) = y
                   /\ month_of(result.val.date) = m

\* "last day of today" on 262142-12-31, the last representable date and the
\* last day of its month: the call fails with InvalidDate {262142, 12, 1}
C21_Witness ==
    /\ IsDayOfMonth
    /\ parsed.date = OrdinalTimeUnitOf(Last, "Day", RefKeyword("Today"))
    /\ now.date = MAX_DATE
    /\ days_from_civil(MAX_YEAR, 12, MonthLength(MAX_YEAR, 12)) = MAX_DATE
    /\ result = OneError(InvalidDate(MAX_YEAR, 12, 1))

\* an ordinal-of-unit date whose reference is a month with an optional year
IsMonthYear == IsDate("OrdinalTimeUnitOf") /\ parsed.date.reference.r = "MonthYear"

\* the year a year spec names: now's year when absent or This, one more for
\* Next, one less for Last, the literal year otherwise
NamedYear(ys) ==
    CASE ys.y = "Absolute" -> ys.year
      [] ys.y = "Relative" /\ ys.relative = "Next" -> year_of(now.date) + 1
      [] ys.y = "Relative" /\ ys.relative = "Last" -> year_of(now.date) - 1
      [] OTHER -> year_of(now.date)

\* months counted from year 0: month m of year y
MonthIndex(y, m) == y * 12 + (m - 1)

\* the month a month spec names in target year ty, as a month index
NamedMonth(ms, ty) ==
    CASE ms.m = "Absolute" -> MonthIndex(ty, ms.month)
      [] ms.m = "Current" -> MonthIndex(ty, month_of(now.date))
      [] ms.m = "RelativeCurrent" ->
           MonthIndex(ty, month_of(now.date))
               + (CASE ms.relative = "This" -> 0
                    [] ms.relative = "Next" -> 1
                    [] ms.relative = "Last" -> -1)
      [] ms.m = "Relative" /\ ms.relative = "This" -> MonthIndex(ty, ms.month)
      [] ms.m = "Relative" /\ ms.relative = "Next" -> MonthIndex(ty + 1, ms.month)
      [] ms.m = "Relative" /\ ms.relative = "Last" ->
           MonthIndex(IF month_of(now.date) <= ms.month THEN ty - 1 ELSE ty, ms.month)

\* the month the reference of the parsed date names
ResolvedMonth ==
    NamedMonth(parsed.date.reference.month_spec, NamedYear(parsed.date.reference.year_spec))

\* day 1 of the month of index i, at 00:00:00
FirstOfMonthIndex(i) == NaiveDateTime(days_from_civil(i \div 12, (i % 12) + 1, 1), 0)

\* with no year spec, Relative(Last, m) names the latest month m that starts
\* before now's month
MostRecentBefore ==
    (/\ parsed.date.reference.year_spec = YearNone
     /\ parsed.date.reference.month_spec.m = "Relative"
     /\ parsed.date.reference.month_spec.relative = "Last") =>
        /\ ResolvedMonth % 12 = parsed.date.reference.month_spec.month - 1
        /\ ResolvedMonth < MonthIndex(year_of(now.date), month_of(now.date))
        /\ ResolvedMonth + 12 >= MonthIndex(year_of(now.date), month_of(now.date))

IsClockDurationFromNow ==
    /\ IsDurationFromNow
    /\ \A i \in 1..Len(AppliedDuration) :
           AppliedDuration[i].unit \in {"Hour", "Minute", "Second"}

\* the seconds of one quantifier of hours, minutes or seconds
SecondsOf(q) ==
    q.count * (CASE q.unit = "Hour" -> 3600 [] q.unit = "Minute" -> 60 [] q.unit = "Second" -> 1)

RECURSIVE TotalSeconds(_, _)

\* the seconds of the first k quantifiers of a duration
TotalSeconds(duration, k) ==
    IF k = 0 THEN 0 ELSE TotalSeconds(duration, k - 1) + SecondsOf(duration[k])

\* the seconds from date-time a to date-time b
SecondsBetween(a, b) == (b.date - a.date) * SecondsPerDay + (b.time - a.time)

\* C23: for every count, either direction and every representable base
\* date-time, applying hour, minute or second quantifiers shifts the
\* date-time by exactly count * 3600, count * 60 or count seconds, and
\* neither fails nor aborts.
C23_ClockShiftNeverAborts ==
    IsClockDurationFromNow =>
        /\ IsOk(result)
        /\ result.val.tag = "DateTime"
        /\ result.val.time \in 0..(SecondsPerDay - 1)
        /\ SecondsBetween(now, result.val)
               = (IF AppliedDirection = "Forwards" THEN 1 ELSE -1)
                 * TotalSeconds(AppliedDuration, Len(AppliedDuration))

\* "in 25 hours" at noon of 262142-12-31, the last representable date: the
\* call aborts
C23_Witness ==
    /\ IsClockDurationFromNow
    /\ parsed = HumanTimeIn(<<Quantifier("Hour", 25)>>)
    /\ now = NaiveDateTime(MAX_DATE, Noon)
    /\ IsPanic(result)

\* the characters of a text
Characters(t) == { SubSeq(t, i, i) : i \in 1..Len(t) }

\* a text as the grammar hands it to the decoder: no upper-case letter
Lowercase(t) ==
    Characters(t) \cap { SubSeq("ABCDEFGHIJKLMNOPQRSTUVWXYZ", i, i) : i \in 1..26 } = {}

\* the ordinal words of 1..20, the tens words and the tens ordinals of 20..90
OrdinalWords ==
    << "first", "second", "third", "fourth", "fifth", "sixth", "seventh", "eighth",
       "ninth", "tenth", "eleventh", "twelfth", "thirteenth", "fourteenth",
       "fifteenth", "sixteenth", "seventeenth", "eighteenth", "nineteenth",
       "twentieth" >>

TensWords ==
    << "twenty", "thirty", "forty", "fifty", "sixty", "seventy", "eighty", "ninety" >>

TensOrdinals ==
    << "twentieth", "thirtieth", "fortieth", "fiftieth", "sixtieth", "seventieth",
       "eightieth", "ninetieth" >>

\* the text before the two-letter suffix of a text ending in st, nd, rd or th
\* ("" when the text has no such suffix)
SuffixedPrefix(t) ==
    IF Len(t) >= 2 /\ \E suffix \in {"st", "nd", "rd", "th"} : SubSeq(t, Len(t) - 1, Len(t)) = suffix
    THEN SubSeq(t, 1, Len(t) - 2)
    ELSE ""

\* the digits of a numeric prefix: an unsigned decimal numeral, which may
\* carry a leading plus sign
NumeralDigits(p) == IF p # "" /\ SubSeq(p, 1, 1) = "+" THEN SubSeq(p, 2, Len(p)) ELSE p

IsNumeral(p) ==
    /\ NumeralDigits(p) # ""
    /\ Characters(NumeralDigits(p)) \subseteq { SubSeq("0123456789", i, i) : i \in 1..10 }

RECURSIVE SignificantDigits(_)

\* a digit string without its leading zeros
SignificantDigits(ds) ==
    IF ds # "" /\ SubSeq(ds, 1, 1) = "0" THEN SignificantDigits(SubSeq(ds, 2, Len(ds))) ELSE ds

DigitValue(c) == CHOOSE v \in 0..9 : SubSeq("0123456789", v + 1, v + 1) = c

RECURSIVE DigitsAtMost(_, _)

\* for digit strings of equal length: a <= b as numbers
DigitsAtMost(a, b) ==
    \/ a = ""
    \/ DigitValue(SubSeq(a, 1, 1)) < DigitValue(SubSeq(b, 1, 1))
    \/ /\ SubSeq(a, 1, 1) = SubSeq(b, 1, 1)
       /\ DigitsAtMost(SubSeq(a, 2, Len(a)), SubSeq(b, 2, Len(b)))

\* the numeral's value is at most 2^32 - 1 = 4294967295
FitsU32(p) ==
    \/ Len(SignificantDigits(NumeralDigits(p))) < 10
    \/ /\ Len(SignificantDigits(NumeralDigits(p))) = 10
       /\ DigitsAtMost(SignificantDigits(NumeralDigits(p)), "4294967295")

RECURSIVE DecimalValue(_)

\* the value of a digit string, from its last digit
DecimalValue(ds) ==
    IF ds = "" THEN 0
    ELSE DecimalValue(SubSeq(ds, 1, Len(ds) - 1)) * 10 + DigitValue(SubSeq(ds, Len(ds), Len(ds)))

\* the integers a text is a recognised word form of: first..twentieth, a
\* tens word with a hyphen and a units ordinal, or a tens ordinal
WordValues(t) ==
    { i \in 1..20 : OrdinalWords[i] = t }
    \cup { 10 * (i + 1) + j : <<i, j>> \in
               { <<i, j>> \in (1..8) \X (1..9) : TensWords[i] \o "-" \o OrdinalWords[j] = t } }
    \cup { 10 * (i + 1) : i \in { i \in 1..8 : TensOrdinals[i] = t } }

\* a call whose ordinal text is lower-case, the decoder's input
DecodedLowercase == Done /\ Lowercase(text)

\* C24 (as stated): the decoder maps every recognised form to its integer
\* and nothing else to a value: every numeric prefix followed by st, nd, rd
\* or th gives the numeric prefix, the words first..twentieth give 1..20, a
\* hyphenated tens word plus units ordinal gives tens + units, the tens
\* ordinals give 20..90, and every other text returns no value.
C24_EveryNumericPrefixDecoded ==
    DecodedLowercase =>
        IF IsNumeral(SuffixedPrefix(text))
        THEN /\ ordinal_from_str(text).some
             /\ ordinal_from_str(text).val = DecimalValue(NumeralDigits(SuffixedPrefix(text)))
        ELSE /\ WordValues(text) = {} => ordinal_from_str(text) = None
             /\ \A n \in WordValues(text) : ordinal_from_str(text) = Some(n)

\* C24 (amended): as stated, for a numeric prefix of value at most
\* 2^32 - 1; a numeric prefix of a larger value returns no value.
C24_OrdinalDecoder ==
    DecodedLowercase =>
        IF IsNumeral(SuffixedPrefix(text))
        THEN IF FitsU32(SuffixedPrefix(text))
             THEN ordinal_from_str(text)
                      = Some(DecimalValue(NumeralDigits(SuffixedPrefix(text))))
             ELSE ordinal_from_str(text) = None
        ELSE /\ WordValues(text) = {} => ordinal_from_str(text) = None
             /\ \A n \in WordValues(text) : ordinal_from_str(text) = Some(n)

\* "forty-fifth week of february" is decoded to 45 and built as Nth(45)
C24_Witness ==
    /\ DecodedLowercase
    /\ text = "forty-fifth"
    /\ WordValues(text) = {45}
    /\ ordinal_from_str(text) = Some(45)
    /\ parsed = HumanTimeDate(OrdinalTimeUnitOf(Nth(45), "Week",
                                                RefMonthYear(MonthAbsolute(2), YearNone)))

====
